---------------------------- MODULE Spec2Model ----------------------------
(***************************************************************************)
(* The operation dispatcher of the enclave's wasm runtime:                 *)
(*   cosmwasm/packages/wasmi-runtime/src/wasm/contract_operations.rs       *)
(* init, handle and query are modelled statement by statement; every host  *)
(* call is one thread whose position is pc[t].  The collaborators that the *)
(* dispatcher imports (contract_validation, io, module_cache, runtime,     *)
(* types) are modelled as small deterministic functions of their inputs.   *)
(***************************************************************************)
EXTENDS Integers, Sequences, FiniteSets, TLC

(***************************************************************************)
(* Bounds of the model.                                                    *)
(***************************************************************************)
\* query messages of every length up to CONTRACT_KEY_LENGTH + MaxExtraLen
MaxExtraLen == 1

(***************************************************************************)
(* Sizes fixed by the imported types.                                      *)
(***************************************************************************)
\* contract_validation::CONTRACT_KEY_LENGTH
CONTRACT_KEY_LENGTH == 64
\* ContractCode::hash() is a 32-byte digest
HASH_SIZE == 32
\* IoNonce and Ed25519PublicKey are 32 bytes each
NONCE_SIZE == 32
PUBLIC_KEY_SIZE == 32
\* the enclave's master secret, as far as the key arithmetic below needs it
ENCLAVE_SECRET == 91
\* gas the engine charges for one allocate() of write_to_memory
ALLOC_COST == 2

(***************************************************************************)
(* Byte strings, Result and Option.                                        *)
(***************************************************************************)
Rep(n, b) == [i \in 1..n |-> b]
Take(s, n) == SubSeq(s, 1, n)
Drop(s, n) == SubSeq(s, n + 1, Len(s))

\* the sum of the bytes s[lo..hi] modulo 256, taken by halves
RECURSIVE SumRange(_, _, _)
SumRange(s, lo, hi) ==
    IF lo > hi THEN 0
    ELSE IF lo = hi THEN s[lo] % 256
    ELSE (SumRange(s, lo, (lo + hi) \div 2)
          + SumRange(s, (lo + hi) \div 2 + 1, hi)) % 256

\* the sum of the first n bytes of s, modulo 256
SumTo(s, n) == SumRange(s, 1, n)

\* the byte string is evaluated once, then summed
SumBytes(s) == CHOOSE sum \in {SumTo(bytes, Len(bytes)) : bytes \in {s}} : TRUE

Ok(v) == [ok |-> TRUE, val |-> v, err |-> "None"]
Err(e) == [ok |-> FALSE, val |-> <<>>, err |-> e]

None == [some |-> FALSE, v |-> <<>>]
Some(x) == [some |-> TRUE, v |-> x]

(***************************************************************************)
(* hex::encode: two lower-case ASCII hex digits per byte.                  *)
(***************************************************************************)
HexDigit(n) == IF n < 10 THEN 48 + n ELSE 87 + n

HexEncode(bytes) ==
    [i \in 1..(2 * Len(bytes)) |->
        IF i % 2 = 1 THEN HexDigit(bytes[(i + 1) \div 2] \div 16)
                     ELSE HexDigit(bytes[i \div 2] % 16)]

(***************************************************************************)
(* ContractCode: the wasm bytes and their digest.                          *)
(***************************************************************************)
ContractHash(contract) ==
    [i \in 1..HASH_SIZE |-> (SumBytes(contract) * 17 + i) % 256]

\* module_cache::create_module_instance: the third module does not validate
ModuleOk(contract) == contract[1] \in {1, 2}

\* runtime::CosmWasmApiVersion of the compiled module, read off its exports
ApiVersionOf(contract) == IF contract[1] = 2 THEN "V016" ELSE "V010"

(***************************************************************************)
(* CanonicalAddr::from_human: bech32 decoding of a HumanAddr.              *)
(***************************************************************************)
from_human(addr) ==
    CASE addr = "secret1abc"    -> Ok(<<10, 11, 12>>)
      [] addr = "secret1sender" -> Ok(<<20, 21, 22>>)
      [] addr = "secret1other"  -> Ok(<<30, 31, 32>>)
      [] OTHER                  -> Err("FailedToDeserialize")

(***************************************************************************)
(* contract_validation: the contract key is                                *)
(*   authentication tag (32 bytes) || encryption seed (32 bytes).          *)
(***************************************************************************)
KeyTag(seed, hash, canonical) ==
    [i \in 1..32 |-> (hash[i] + SumBytes(canonical) + seed[i] + ENCLAVE_SECRET) % 256]

generate_encryption_key(env, hash, canonical) ==
    LET sender == from_human(env.message.sender) IN
    IF ~sender.ok THEN Err("FailedToDeserialize")
    ELSE LET seed == [i \in 1..32 |->
                        (SumBytes(sender.val) + env.block.height + i) % 256]
         IN  Ok(KeyTag(seed, hash, canonical) \o seed)

extract_contract_key(env) ==
    IF env.contract_key.some /\ Len(env.contract_key.v) = CONTRACT_KEY_LENGTH
    THEN Ok(env.contract_key.v)
    ELSE Err("FailedContractAuthentication")

validate_contract_key(key, canonical, contract) ==
    Take(key, 32) = KeyTag(Drop(key, 32), ContractHash(contract), canonical)


(***************************************************************************)
(* types::SecretMessage: nonce(32) || user_public_key(32) || ciphertext.   *)
(***************************************************************************)
SecretMessage_from_slice(msg) ==
    IF Len(msg) < NONCE_SIZE + PUBLIC_KEY_SIZE THEN Err("FailedToDeserialize")
    ELSE Ok([nonce           |-> Take(msg, NONCE_SIZE),
             user_public_key |-> SubSeq(msg, NONCE_SIZE + 1, NONCE_SIZE + PUBLIC_KEY_SIZE),
             msg             |-> Drop(msg, NONCE_SIZE + PUBLIC_KEY_SIZE)])

\* the key both sides derive from (user_public_key, enclave secret, nonce)
IoKey(nonce, user_public_key) ==
    (SumBytes(nonce) * 3 + SumBytes(user_public_key) * 5 + ENCLAVE_SECRET) % 256

\* the AEAD: a one-byte tag over the plaintext, then the shifted plaintext
Shift(bytes, k) == [i \in 1..Len(bytes) |-> (bytes[i] + k) % 256]

AeadSeal(plain, k) == <<(SumBytes(plain) + k) % 256>> \o Shift(plain, k)

AeadOpen(cipher, plain, k) ==
    IF cipher[1] = (SumBytes(plain) + k) % 256 THEN Ok(plain) ELSE Err("DecryptionError")

AeadEncrypt(plain, nonce, user_public_key) ==
    AeadSeal(plain, IoKey(nonce, user_public_key))

AeadDecrypt(cipher, nonce, user_public_key) ==
    IF cipher = <<>> THEN Err("DecryptionError")
    ELSE AeadOpen(cipher,
                  Shift(Tail(cipher), 256 - IoKey(nonce, user_public_key)),
                  IoKey(nonce, user_public_key))

SecretMessage_decrypt(secret_msg) ==
    AeadDecrypt(secret_msg.msg, secret_msg.nonce, secret_msg.user_public_key)

\* contract_validation::validate_msg: hex(code hash) || payload
validate_msg(plaintext, hash) ==
    IF Len(plaintext) >= 2 * HASH_SIZE
       /\ Take(plaintext, 2 * HASH_SIZE) = HexEncode(hash)
    THEN Ok(Drop(plaintext, 2 * HASH_SIZE))
    ELSE Err("ValidationFailure")

\* contract_validation::verify_params: the signed document names the sender,
\* the contract address and the encrypted message of this very call
verify_params(sig_info, env, secret_msg) ==
    IF /\ sig_info.sender = env.message.sender
       /\ sig_info.contract = env.contract.address
       /\ sig_info.msg = secret_msg.nonce \o secret_msg.user_public_key \o secret_msg.msg
    THEN Ok(<<>>) ELSE Err("FailedTxVerification")

\* io::encrypt_output: the contract's answer must be a JSON object ("{...")
encrypt_output(output, nonce, user_public_key, canonical) ==
    IF output # <<>> /\ output[1] = 123
    THEN Ok(AeadEncrypt(output \o canonical, nonce, user_public_key))
    ELSE Err("EncryptionError")

(***************************************************************************)
(* runtime::Engine: the metered wasm instance.  A guest is driven by the   *)
(* first byte of its message: 0 answers "{}", 1 traps, 2 loops until the   *)
(* gas is gone, 3 returns a dangling vector pointer, 4 answers bytes that  *)
(* are no JSON.                                                            *)
(***************************************************************************)
GuestCommand(payload) == IF payload = <<>> THEN 0 ELSE payload[1]

GuestCost(cmd) == IF cmd = 2 THEN 100 ELSE IF cmd = 1 THEN 1 ELSE 3

GuestOutput(cmd) == IF cmd = 4 THEN <<0>> ELSE <<123, 125>>

\* ContractInstance::new and Engine::new
Engine_new(context, contract, gas_limit, contract_key, operation, nonce, user_public_key) ==
    [contract_instance |->
        [context              |-> context,
         gas_limit            |-> gas_limit,
         contract_key         |-> contract_key,
         operation            |-> operation,
         nonce                |-> nonce,
         user_public_key      |-> user_public_key,
         cosmwasm_api_version |-> ApiVersionOf(contract)],
     module   |-> contract,
     gas_used |-> 0,
     memory   |-> <<>>,
     entered  |-> <<>>]

\* Engine::write_to_memory: allocate() in the guest, then copy; both metered
Engine_write_to_memory(e, buffer) ==
    IF e.gas_used + ALLOC_COST > e.contract_instance.gas_limit
    THEN [engine |-> [e EXCEPT !.gas_used = e.contract_instance.gas_limit],
          res    |-> Err("FailedFunctionCall")]
    ELSE [engine |-> [e EXCEPT !.gas_used = @ + ALLOC_COST,
                               !.memory = Append(@, buffer)],
          res    |-> Ok(Len(e.memory) + 1)]

\* Engine::init / Engine::handle / Engine::query
Engine_enter(e, entry, ptrs) ==
    LET msg_ptr == ptrs[Len(ptrs)]
        cmd     == GuestCommand(e.memory[msg_ptr])
        cost    == GuestCost(cmd)
        called  == [e EXCEPT !.entered = Append(@, [entry |-> entry, ptrs |-> ptrs])]
    IN  IF e.gas_used + cost > e.contract_instance.gas_limit
        THEN [engine |-> [called EXCEPT !.gas_used = e.contract_instance.gas_limit],
              res    |-> Err("FailedFunctionCall")]
        ELSE IF cmd = 1
        THEN [engine |-> [called EXCEPT !.gas_used = @ + cost],
              res    |-> Err("FailedFunctionCall")]
        ELSE IF cmd = 3
        THEN [engine |-> [called EXCEPT !.gas_used = @ + cost],
              res    |-> Ok(0)]
        ELSE [engine |-> [called EXCEPT !.gas_used = @ + cost,
                                        !.memory = Append(@, GuestOutput(cmd))],
              res    |-> Ok(Len(e.memory) + 1)]

\* Engine::extract_vector
Engine_extract_vector(e, vec_ptr) ==
    IF vec_ptr \in 1..Len(e.memory) THEN Ok(e.memory[vec_ptr])
    ELSE Err("FailedFunctionCall")

\* Engine::gas_used
Engine_gas_used(e) == e.gas_used


(***************************************************************************)
(* u64 arithmetic, exact: a u64 is eight base-256 limbs, least first.      *)
(***************************************************************************)
RECURSIVE U64(_)
U64(n) == IF n < 256 THEN <<n, 0, 0, 0, 0, 0, 0, 0>>
          ELSE LET hi == U64(n \div 256) IN <<n % 256>> \o Take(hi, 7)

RECURSIVE SumColumn(_, _, _, _)
SumColumn(a, b, k, i) ==
    IF i > k THEN 0 ELSE a[i] * b[k + 1 - i] + SumColumn(a, b, k, i + 1)

RECURSIVE MulLimbs(_, _, _, _)
MulLimbs(a, b, k, carry) ==
    IF k > 8 THEN <<>>
    ELSE LET s == SumColumn(a, b, k, 1) + carry
         IN  <<s % 256>> \o MulLimbs(a, b, k + 1, s \div 256)

\* u64 `*` as the release build computes it: the low 64 bits of the product
WrappingMul(a, b) == MulLimbs(a, b, 1, 0)

\* cosmwasm Timestamp::from_seconds: nanoseconds = seconds * 1_000_000_000
Timestamp_from_seconds(seconds) == WrappingMul(seconds, U64(1000000000))

(***************************************************************************)
(* env_to_bytes: the env as the contract's API version reads it.  The JSON *)
(* text serde_json::to_vec writes is kept as the document it encodes.      *)
(***************************************************************************)
EnvV010Cleared(env_v010) == [env_v010 EXCEPT !.contract_key = None]

EnvV016Of(env_v010) ==
    [block    |-> [height   |-> env_v010.block.height,
                   time     |-> Timestamp_from_seconds(env_v010.block.time),
                   chain_id |-> env_v010.block.chain_id],
     contract |-> [address   |-> env_v010.contract.address,
                   code_hash |-> env_v010.contract_code_hash]]

env_to_bytes(e, env_v010) ==
    IF e.contract_instance.cosmwasm_api_version = "V010"
    THEN [version |-> "V010", v010 |-> <<EnvV010Cleared(env_v010)>>, v016 |-> <<>>]
    ELSE [version |-> "V016", v010 |-> <<>>, v016 |-> <<EnvV016Of(env_v010)>>]

(***************************************************************************)
(* What the host may pass.                                                 *)
(***************************************************************************)
Contracts == {<<1>>, <<2>>, <<3>>}

GasLimits == {1, 3, 50}

Contexts == {7}

\* a repeated instantiation may come through another host context
RepeatContexts == {7, 8}

UsedGasBefore == {5}

Nonce0 == Rep(NONCE_SIZE, 0)
UserKey1 == Rep(PUBLIC_KEY_SIZE, 1)

EnvDoc(sender, address, key, code_hash) ==
    [block              |-> [height |-> 1, time |-> U64(2), chain_id |-> "t"],
     message            |-> [sender |-> sender, sent_funds |-> <<>>],
     contract           |-> [address |-> address],
     contract_key       |-> key,
     contract_code_hash |-> code_hash]

GoodEnv == EnvDoc("secret1sender", "secret1abc", None, <<>>)

\* the key init mints for `contract` at GoodEnv
KeyOf(contract) ==
    generate_encryption_key(GoodEnv, ContractHash(contract), from_human("secret1abc").val).val

HostHash == HexEncode(Rep(HASH_SIZE, 222))

\* block.time = 18_446_744_074 s (0x4_4B82_FA0A), least significant byte first
LateTime == <<10, 250, 130, 75, 4, 0, 0, 0>>

Envs ==
    {[wellformed |-> FALSE, doc |-> GoodEnv],
     [wellformed |-> TRUE, doc |-> GoodEnv],
     [wellformed |-> TRUE,
      doc |-> EnvDoc("secret1sender", "secret1abc", Some(KeyOf(<<1>>)), HostHash)],
     [wellformed |-> TRUE,
      doc |-> EnvDoc("secret1sender", "secret1abc", Some(KeyOf(<<2>>)), <<>>)],
     [wellformed |-> TRUE,
      doc |-> EnvDoc("secret1sender", "secret1abc", Some(KeyOf(<<3>>)), <<>>)],
     [wellformed |-> TRUE,
      doc |-> EnvDoc("secret1sender", "secret1abc",
                     Some([KeyOf(<<1>>) EXCEPT ![1] = (@ + 1) % 256]), <<>>)],
     [wellformed |-> TRUE,
      doc |-> EnvDoc("secret1sender", "secret1abc", Some(Take(KeyOf(<<1>>), 63)), <<>>)],
     [wellformed |-> TRUE,
      doc |-> EnvDoc("secret1sender", "not-bech32", Some(KeyOf(<<1>>)), <<>>)],
     [wellformed |-> TRUE,
      doc |-> EnvDoc("not-bech32", "secret1abc", None, <<>>)],
     [wellformed |-> TRUE,
      doc |-> [EnvDoc("secret1sender", "secret1abc", Some(KeyOf(<<2>>)), <<>>)
                 EXCEPT !.block.time = LateTime]]}

\* nonce || user_public_key || AEAD(hex(hash(contract)) || <<command>>)
SecretMsgBytes(contract, cmd) ==
    Nonce0 \o UserKey1
      \o AeadEncrypt(HexEncode(ContractHash(contract)) \o <<cmd>>, Nonce0, UserKey1)

Msgs ==
    {Rep(63, 0),
     [SecretMsgBytes(<<1>>, 0) EXCEPT ![Len(SecretMsgBytes(<<1>>, 0))] = (@ + 1) % 256],
     Nonce0 \o UserKey1 \o AeadEncrypt(Rep(64, 98) \o <<0>>, Nonce0, UserKey1),
     SecretMsgBytes(<<2>>, 0),
     SecretMsgBytes(<<3>>, 0)}
    \cup {SecretMsgBytes(<<1>>, cmd) : cmd \in 0..4}

\* a second nonce and key, for a caller other than the first
Nonce7 == Rep(NONCE_SIZE, 7)
UserKey2 == Rep(PUBLIC_KEY_SIZE, 2)

MsgsFor(contract) ==
    {SecretMsgBytes(contract, 0),
     Nonce7 \o UserKey2
       \o AeadEncrypt(HexEncode(ContractHash(contract)) \o <<0>>, Nonce7, UserKey2)}

QueryKey == Rep(CONTRACT_KEY_LENGTH, 9)

QueryMsgs ==
    {Rep(n, 9) : n \in 0..(CONTRACT_KEY_LENGTH + MaxExtraLen)}
    \cup {QueryKey \o m : m \in Msgs}

\* sig_info: not JSON, or the document the sender signed
SigOf(sender, contract, msg) ==
    [wellformed |-> TRUE, doc |-> [sender |-> sender, contract |-> contract, msg |-> msg]]

Sigs(env, msg) ==
    {[SigOf(env.doc.message.sender, env.doc.contract.address, msg) EXCEPT !.wellformed = FALSE],
     SigOf(env.doc.message.sender, env.doc.contract.address, msg),
     SigOf("secret1other", env.doc.contract.address, msg)}

NoEnv == [wellformed |-> FALSE, doc |-> GoodEnv]
NoSig == [SigOf("", "", <<>>) EXCEPT !.wellformed = FALSE]


(***************************************************************************)
(* State.  Every variable is indexed by the worker thread serving a call.  *)
(*   pc          where the call stands in init / handle / query            *)
(*   args        the arguments of the call                                 *)
(*   used_gas    the host's u64 behind the `used_gas` out-parameter        *)
(*   frame       the locals of the call                                    *)
(*   engine      <<>> or <<the Engine start_engine returned>>              *)
(*   ret         <<>> while the call runs, <<its Result>> once returned    *)
(*   trace       the collaborators called so far, in order                 *)
(*   gas_writes  how often the call has assigned *used_gas                 *)
(* and, kept by the host,                                                  *)
(*   instantiated  <<>> or <<the arguments and the contract_key of an      *)
(*                 InitSuccess>> that the host is about to repeat          *)
(*   alone         <<>> or <<the arguments, the Result and the used_gas of *)
(*                 a call that ran while no other call was in the enclave>>*)
(***************************************************************************)
VARIABLES pc, args, used_gas, frame, engine, ret, trace, gas_writes, instantiated, alone

vars == <<pc, args, used_gas, frame, engine, ret, trace, gas_writes, instantiated, alone>>

Threads == DOMAIN pc

NoArgs ==
    [op |-> "none", context |-> 0, gas_limit |-> 0, used_gas |-> 0, contract |-> <<>>,
     env |-> NoEnv, msg |-> <<>>, sig_info |-> NoSig]

Frame0 ==
    [env_v010                   |-> GoodEnv,
     canonical_contract_address |-> <<>>,
     contract_key               |-> <<>>,
     parsed_sig_info            |-> NoSig.doc,
     msg                        |-> <<>>,
     secret_msg                 |-> [nonce |-> <<>>, user_public_key |-> <<>>, msg |-> <<>>],
     decrypted_msg              |-> <<>>,
     validated_msg              |-> <<>>,
     contract_env_bytes         |-> <<>>,
     env_ptr                    |-> 0,
     msg_ptr                    |-> 0,
     vec_ptr                    |-> 0,
     output                     |-> <<>>,
     err                        |-> "None"]

InitFor(threads) ==
    /\ pc = [t \in threads |-> "idle"]
    /\ args = [t \in threads |-> NoArgs]
    /\ used_gas = [t \in threads |-> 0]
    /\ frame = [t \in threads |-> Frame0]
    /\ engine = [t \in threads |-> <<>>]
    /\ ret = [t \in threads |-> <<>>]
    /\ trace = [t \in threads |-> <<>>]
    /\ gas_writes = [t \in threads |-> 0]
    /\ instantiated = <<>>
    /\ alone = <<>>

Init == InitFor({1})

(***************************************************************************)
(* The host calls into the enclave: the arguments are fixed, *used_gas     *)
(* holds whatever the host left in it, the locals are fresh.               *)
(***************************************************************************)
Enter(t, a, first) ==
    /\ pc' = [pc EXCEPT ![t] = first]
    /\ args' = [args EXCEPT ![t] = a]
    /\ used_gas' = [used_gas EXCEPT ![t] = a.used_gas]
    /\ UNCHANGED <<frame, engine, ret, trace, gas_writes, instantiated, alone>>

CallInit(t) ==
    /\ pc[t] = "idle"
    /\ instantiated = <<>>
    /\ \E c \in Contexts, g \in GasLimits, u \in UsedGasBefore, k \in Contracts,
       e \in Envs, m \in Msgs :
        \E s \in Sigs(e, m) :
            Enter(t, [op |-> "init", context |-> c, gas_limit |-> g, used_gas |-> u,
                      contract |-> k, env |-> e, msg |-> m, sig_info |-> s],
                  "init_parse_env")

\* the host instantiates once more from the env and the code of an earlier
\* InitSuccess; the message, the signature, the gas and the context are free
CallInitAgain(t) ==
    /\ pc[t] = "idle"
    /\ instantiated # <<>>
    /\ \E c \in RepeatContexts, g \in GasLimits, u \in UsedGasBefore,
          m \in MsgsFor(instantiated[1].args.contract) :
        \E s \in Sigs(instantiated[1].args.env, m) :
            Enter(t, [op |-> "init", context |-> c, gas_limit |-> g, used_gas |-> u,
                      contract |-> instantiated[1].args.contract,
                      env |-> instantiated[1].args.env, msg |-> m, sig_info |-> s],
                  "init_parse_env")

CallHandle(t) ==
    /\ pc[t] = "idle"
    /\ instantiated = <<>>
    /\ \E c \in Contexts, g \in GasLimits, u \in UsedGasBefore, k \in Contracts,
       e \in Envs, m \in Msgs :
        \E s \in Sigs(e, m) :
            Enter(t, [op |-> "handle", context |-> c, gas_limit |-> g, used_gas |-> u,
                      contract |-> k, env |-> e, msg |-> m, sig_info |-> s],
                  "handle_parse_env")

CallQuery(t) ==
    /\ pc[t] = "idle"
    /\ instantiated = <<>>
    /\ \E c \in Contexts, g \in GasLimits, u \in UsedGasBefore, k \in Contracts,
       m \in QueryMsgs :
        Enter(t, [op |-> "query", context |-> c, gas_limit |-> g, used_gas |-> u,
                  contract |-> k, env |-> NoEnv, msg |-> m, sig_info |-> NoSig],
              "query_check_len")

(***************************************************************************)
(* Rust's `?` on the Result of one collaborator: on Ok the call goes on at *)
(* `next` with its locals updated, on Err it returns that error at once.   *)
(***************************************************************************)
Try(t, called, res, next, locals) ==
    /\ trace' = [trace EXCEPT ![t] = Append(@, called)]
    /\ IF res.ok
       THEN /\ pc' = [pc EXCEPT ![t] = next]
            /\ frame' = [frame EXCEPT ![t] = locals]
            /\ ret' = ret
       ELSE /\ pc' = [pc EXCEPT ![t] = "returned"]
            /\ frame' = frame
            /\ ret' = [ret EXCEPT ![t] = <<Err(res.err)>>]

\* serde_json::from_slice on the env / sig_info bytes
from_json(bytes) == IF bytes.wellformed THEN Ok(bytes.doc) ELSE Err("FailedToDeserialize")


\* Stamp gone wrong: the host's contract_code_hash is left in place
Stamp_HostValueKept(env_v010, contract) == env_v010

\* env_v010.contract_code_hash = hex::encode(contract_code.hash())
Stamp(env_v010, contract) ==
    [env_v010 EXCEPT !.contract_code_hash = HexEncode(ContractHash(contract))]

\* start_engine: the module from the cache, then ContractInstance and Engine
start_engine(context, gas_limit, contract, contract_key, operation, nonce, user_public_key) ==
    IF ModuleOk(contract)
    THEN Ok(Engine_new(context, contract, gas_limit, contract_key, operation,
                       nonce, user_public_key))
    ELSE Err("FailedFunctionCall")


\* InBlock gone wrong: the block drops an Err and goes on
InBlock_Swallows(t, called, res, next, handler, locals) ==
    /\ trace' = [trace EXCEPT ![t] = Append(@, called)]
    /\ ret' = ret
    /\ pc' = [pc EXCEPT ![t] = next]
    /\ frame' = [frame EXCEPT ![t] = locals]

(***************************************************************************)
(* Inside coalesce!{...}: an Err leaves the block for the .map_err closure *)
(* that follows it, an Ok goes on to the next statement of the block.      *)
(***************************************************************************)
InBlock(t, called, res, next, handler, locals) ==
    /\ trace' = [trace EXCEPT ![t] = Append(@, called)]
    /\ ret' = ret
    /\ IF res.ok
       THEN /\ pc' = [pc EXCEPT ![t] = next]
            /\ frame' = [frame EXCEPT ![t] = locals]
       ELSE /\ pc' = [pc EXCEPT ![t] = handler]
            /\ frame' = [frame EXCEPT ![t].err = res.err]

\* WriteUsedGas gone wrong: one u64 shared by the worker threads takes the gas
WriteUsedGas_Shared(t) ==
    /\ used_gas' = [u \in Threads |-> Engine_gas_used(engine[t][1])]
    /\ gas_writes' = [gas_writes EXCEPT ![t] = @ + 1]

\* WriteUsedGas gone wrong: the gas is added to what the host left in *used_gas
WriteUsedGas_Accumulates(t) ==
    /\ used_gas' = [used_gas EXCEPT ![t] = @ + Engine_gas_used(engine[t][1])]
    /\ gas_writes' = [gas_writes EXCEPT ![t] = @ + 1]

\* *used_gas = engine.gas_used()
WriteUsedGas(t) ==
    /\ used_gas' = [used_gas EXCEPT ![t] = Engine_gas_used(engine[t][1])]
    /\ gas_writes' = [gas_writes EXCEPT ![t] = @ + 1]

\* MapErr gone wrong: after a first failure the entry point is called once more
MapErr_Retries(t, at) ==
    /\ pc[t] = at
    /\ WriteUsedGas(t)
    /\ trace' = [trace EXCEPT ![t] = Append(@, "gas_used")]
    /\ IF gas_writes[t] = 0
       THEN /\ pc' = [pc EXCEPT ![t] =
                        CASE at = "init_map_err"   -> "init_engine_init"
                          [] at = "handle_map_err" -> "handle_engine_handle"
                          [] at = "query_map_err"  -> "query_engine_query"]
            /\ ret' = ret
       ELSE /\ pc' = [pc EXCEPT ![t] = "returned"]
            /\ ret' = [ret EXCEPT ![t] = <<Err(frame[t].err)>>]
    /\ UNCHANGED <<args, frame, engine, instantiated, alone>>

\* MapErr gone wrong: the closure hands the error on and forgets the gas
MapErr_ForgetsGas(t, at) ==
    /\ pc[t] = at
    /\ trace' = [trace EXCEPT ![t] = Append(@, "gas_used")]
    /\ pc' = [pc EXCEPT ![t] = "returned"]
    /\ ret' = [ret EXCEPT ![t] = <<Err(frame[t].err)>>]
    /\ UNCHANGED <<args, used_gas, gas_writes, frame, engine, instantiated, alone>>

\* .map_err(|err| { *used_gas = engine.gas_used(); err })?
MapErr(t, at) ==
    /\ pc[t] = at
    /\ WriteUsedGas(t)
    /\ trace' = [trace EXCEPT ![t] = Append(@, "gas_used")]
    /\ pc' = [pc EXCEPT ![t] = "returned"]
    /\ ret' = [ret EXCEPT ![t] = <<Err(frame[t].err)>>]
    /\ UNCHANGED <<args, frame, engine, instantiated, alone>>

(***************************************************************************)
(* init                                                                    *)
(***************************************************************************)
init_ParseEnv(t) ==
    /\ pc[t] = "init_parse_env"
    /\ LET res == from_json(args[t].env) IN
       Try(t, "from_slice(env)", res, "init_from_human",
           [frame[t] EXCEPT !.env_v010 = Stamp(res.val, args[t].contract)])
    /\ UNCHANGED <<args, used_gas, engine, gas_writes, instantiated, alone>>

init_FromHuman(t) ==
    /\ pc[t] = "init_from_human"
    /\ LET res == from_human(frame[t].env_v010.contract.address) IN
       Try(t, "from_human", res, "init_generate_key",
           [frame[t] EXCEPT !.canonical_contract_address = res.val])
    /\ UNCHANGED <<args, used_gas, engine, gas_writes, instantiated, alone>>


\* init_GenerateKey gone wrong: the host context of the call leaks into the key
init_GenerateKey_PerContext(t) ==
    /\ pc[t] = "init_generate_key"
    /\ LET res == generate_encryption_key(frame[t].env_v010,
                                          ContractHash(args[t].contract),
                                          frame[t].canonical_contract_address) IN
       Try(t, "generate_encryption_key", res, "init_parse_sig",
           [frame[t] EXCEPT !.contract_key =
               [res.val EXCEPT ![CONTRACT_KEY_LENGTH] = (@ + args[t].context) % 256]])
    /\ UNCHANGED <<args, used_gas, engine, gas_writes, instantiated, alone>>

init_GenerateKey(t) ==
    /\ pc[t] = "init_generate_key"
    /\ LET res == generate_encryption_key(frame[t].env_v010,
                                          ContractHash(args[t].contract),
                                          frame[t].canonical_contract_address) IN
       Try(t, "generate_encryption_key", res, "init_parse_sig",
           [frame[t] EXCEPT !.contract_key = res.val])
    /\ UNCHANGED <<args, used_gas, engine, gas_writes, instantiated, alone>>

init_ParseSig(t) ==
    /\ pc[t] = "init_parse_sig"
    /\ LET res == from_json(args[t].sig_info) IN
       Try(t, "from_slice(sig_info)", res, "init_parse_msg",
           [frame[t] EXCEPT !.parsed_sig_info = res.val])
    /\ UNCHANGED <<args, used_gas, engine, gas_writes, instantiated, alone>>

init_ParseMsg(t) ==
    /\ pc[t] = "init_parse_msg"
    /\ LET res == SecretMessage_from_slice(args[t].msg) IN
       Try(t, "SecretMessage::from_slice", res, "init_verify_params",
           [frame[t] EXCEPT !.secret_msg = res.val])
    /\ UNCHANGED <<args, used_gas, engine, gas_writes, instantiated, alone>>

init_VerifyParams(t) ==
    /\ pc[t] = "init_verify_params"
    /\ LET res == verify_params(frame[t].parsed_sig_info, frame[t].env_v010,
                                frame[t].secret_msg) IN
       Try(t, "verify_params", res, "init_decrypt", frame[t])
    /\ UNCHANGED <<args, used_gas, engine, gas_writes, instantiated, alone>>

init_Decrypt(t) ==
    /\ pc[t] = "init_decrypt"
    /\ LET res == SecretMessage_decrypt(frame[t].secret_msg) IN
       Try(t, "decrypt", res, "init_validate_msg",
           [frame[t] EXCEPT !.decrypted_msg = res.val])
    /\ UNCHANGED <<args, used_gas, engine, gas_writes, instantiated, alone>>

init_ValidateMsg(t) ==
    /\ pc[t] = "init_validate_msg"
    /\ LET res == validate_msg(frame[t].decrypted_msg, ContractHash(args[t].contract)) IN
       Try(t, "validate_msg", res, "init_start_engine",
           [frame[t] EXCEPT !.validated_msg = res.val])
    /\ UNCHANGED <<args, used_gas, engine, gas_writes, instantiated, alone>>

init_StartEngine(t) ==
    /\ pc[t] = "init_start_engine"
    /\ LET res == start_engine(args[t].context, args[t].gas_limit, args[t].contract,
                               frame[t].contract_key, "Init",
                               frame[t].secret_msg.nonce,
                               frame[t].secret_msg.user_public_key) IN
       /\ Try(t, "start_engine", res, "init_env_to_bytes", frame[t])
       /\ engine' = [engine EXCEPT ![t] = IF res.ok THEN <<res.val>> ELSE @]
    /\ UNCHANGED <<args, used_gas, gas_writes, instantiated, alone>>

init_EnvToBytes(t) ==
    /\ pc[t] = "init_env_to_bytes"
    /\ Try(t, "env_to_bytes", Ok(<<>>), "init_write_env",
           [frame[t] EXCEPT
              !.contract_env_bytes = env_to_bytes(engine[t][1], frame[t].env_v010),
              !.env_v010 =
                  IF engine[t][1].contract_instance.cosmwasm_api_version = "V010"
                  THEN EnvV010Cleared(@) ELSE @])
    /\ UNCHANGED <<args, used_gas, engine, gas_writes, instantiated, alone>>

init_WriteEnv(t) ==
    /\ pc[t] = "init_write_env"
    /\ LET w == Engine_write_to_memory(engine[t][1], frame[t].contract_env_bytes) IN
       /\ Try(t, "write_to_memory(env)", w.res, "init_write_msg",
              [frame[t] EXCEPT !.env_ptr = w.res.val])
       /\ engine' = [engine EXCEPT ![t] = <<w.engine>>]
    /\ UNCHANGED <<args, used_gas, gas_writes, instantiated, alone>>


\* init_WriteMsg gone wrong: the plaintext goes to the contract with its prefix
init_WriteMsg_Unstripped(t) ==
    /\ pc[t] = "init_write_msg"
    /\ LET w == Engine_write_to_memory(engine[t][1], frame[t].decrypted_msg) IN
       /\ Try(t, "write_to_memory(msg)", w.res, "init_engine_init",
              [frame[t] EXCEPT !.msg_ptr = w.res.val])
       /\ engine' = [engine EXCEPT ![t] = <<w.engine>>]
    /\ UNCHANGED <<args, used_gas, gas_writes, instantiated, alone>>

init_WriteMsg(t) ==
    /\ pc[t] = "init_write_msg"
    /\ LET w == Engine_write_to_memory(engine[t][1], frame[t].validated_msg) IN
       /\ Try(t, "write_to_memory(msg)", w.res, "init_engine_init",
              [frame[t] EXCEPT !.msg_ptr = w.res.val])
       /\ engine' = [engine EXCEPT ![t] = <<w.engine>>]
    /\ UNCHANGED <<args, used_gas, gas_writes, instantiated, alone>>

init_EngineInit(t) ==
    /\ pc[t] = "init_engine_init"
    /\ LET r == Engine_enter(engine[t][1], "init", <<frame[t].env_ptr, frame[t].msg_ptr>>) IN
       /\ InBlock(t, "engine.init", r.res, "init_extract_vector", "init_map_err",
                  [frame[t] EXCEPT !.vec_ptr = r.res.val])
       /\ engine' = [engine EXCEPT ![t] = <<r.engine>>]
    /\ UNCHANGED <<args, used_gas, gas_writes, instantiated, alone>>

init_ExtractVector(t) ==
    /\ pc[t] = "init_extract_vector"
    /\ LET res == Engine_extract_vector(engine[t][1], frame[t].vec_ptr) IN
       InBlock(t, "extract_vector", res, "init_encrypt_output", "init_map_err",
               [frame[t] EXCEPT !.output = res.val])
    /\ UNCHANGED <<args, used_gas, engine, gas_writes, instantiated, alone>>

init_EncryptOutput(t) ==
    /\ pc[t] = "init_encrypt_output"
    /\ LET res == encrypt_output(frame[t].output, frame[t].secret_msg.nonce,
                                 frame[t].secret_msg.user_public_key,
                                 frame[t].canonical_contract_address) IN
       InBlock(t, "encrypt_output", res, "init_return", "init_map_err",
               [frame[t] EXCEPT !.output = res.val])
    /\ UNCHANGED <<args, used_gas, engine, gas_writes, instantiated, alone>>

init_MapErr(t) == MapErr(t, "init_map_err")

init_Return(t) ==
    /\ pc[t] = "init_return"
    /\ WriteUsedGas(t)
    /\ trace' = [trace EXCEPT ![t] = Append(@, "gas_used")]
    /\ pc' = [pc EXCEPT ![t] = "returned"]
    /\ ret' = [ret EXCEPT ![t] =
                 <<Ok([output |-> frame[t].output,
                       contract_key |-> frame[t].contract_key])>>]
    /\ UNCHANGED <<args, frame, engine, instantiated, alone>>

(***************************************************************************)
(* handle                                                                  *)
(***************************************************************************)
handle_ParseEnv(t) ==
    /\ pc[t] = "handle_parse_env"
    /\ LET res == from_json(args[t].env) IN
       Try(t, "from_slice(env)", res, "handle_parse_sig",
           [frame[t] EXCEPT !.env_v010 = Stamp(res.val, args[t].contract)])
    /\ UNCHANGED <<args, used_gas, engine, gas_writes, instantiated, alone>>

handle_ParseSig(t) ==
    /\ pc[t] = "handle_parse_sig"
    /\ LET res == from_json(args[t].sig_info) IN
       Try(t, "from_slice(sig_info)", res, "handle_parse_msg",
           [frame[t] EXCEPT !.parsed_sig_info = res.val])
    /\ UNCHANGED <<args, used_gas, engine, gas_writes, instantiated, alone>>

handle_ParseMsg(t) ==
    /\ pc[t] = "handle_parse_msg"
    /\ LET res == SecretMessage_from_slice(args[t].msg) IN
       Try(t, "SecretMessage::from_slice", res, "handle_verify_params",
           [frame[t] EXCEPT !.secret_msg = res.val])
    /\ UNCHANGED <<args, used_gas, engine, gas_writes, instantiated, alone>>


\* handle_VerifyParams gone wrong: the Result is dropped instead of propagated
handle_VerifyParams_Unchecked(t) ==
    /\ pc[t] = "handle_verify_params"
    /\ Try(t, "verify_params", Ok(<<>>), "handle_extract_key", frame[t])
    /\ UNCHANGED <<args, used_gas, engine, gas_writes, instantiated, alone>>

handle_VerifyParams(t) ==
    /\ pc[t] = "handle_verify_params"
    /\ LET res == verify_params(frame[t].parsed_sig_info, frame[t].env_v010,
                                frame[t].secret_msg) IN
       Try(t, "verify_params", res, "handle_extract_key", frame[t])
    /\ UNCHANGED <<args, used_gas, engine, gas_writes, instantiated, alone>>

handle_ExtractKey(t) ==
    /\ pc[t] = "handle_extract_key"
    /\ LET res == extract_contract_key(frame[t].env_v010) IN
       Try(t, "extract_contract_key", res, "handle_parse_msg_again",
           [frame[t] EXCEPT !.contract_key = res.val])
    /\ UNCHANGED <<args, used_gas, engine, gas_writes, instantiated, alone>>

\* handle_ParseMsgAgain gone wrong: the first parse has consumed its 64 bytes
handle_ParseMsgAgain_Consumed(t) ==
    /\ pc[t] = "handle_parse_msg_again"
    /\ LET res == SecretMessage_from_slice(Drop(args[t].msg, NONCE_SIZE + PUBLIC_KEY_SIZE)) IN
       Try(t, "SecretMessage::from_slice", res, "handle_decrypt",
           [frame[t] EXCEPT !.secret_msg = res.val])
    /\ UNCHANGED <<args, used_gas, engine, gas_writes, instantiated, alone>>

\* the second `let secret_msg = SecretMessage::from_slice(msg)?`
handle_ParseMsgAgain(t) ==
    /\ pc[t] = "handle_parse_msg_again"
    /\ LET res == SecretMessage_from_slice(args[t].msg) IN
       Try(t, "SecretMessage::from_slice", res, "handle_decrypt",
           [frame[t] EXCEPT !.secret_msg = res.val])
    /\ UNCHANGED <<args, used_gas, engine, gas_writes, instantiated, alone>>

handle_Decrypt(t) ==
    /\ pc[t] = "handle_decrypt"
    /\ LET res == SecretMessage_decrypt(frame[t].secret_msg) IN
       Try(t, "decrypt", res, "handle_validate_msg",
           [frame[t] EXCEPT !.decrypted_msg = res.val])
    /\ UNCHANGED <<args, used_gas, engine, gas_writes, instantiated, alone>>

handle_ValidateMsg(t) ==
    /\ pc[t] = "handle_validate_msg"
    /\ LET res == validate_msg(frame[t].decrypted_msg, ContractHash(args[t].contract)) IN
       Try(t, "validate_msg", res, "handle_from_human",
           [frame[t] EXCEPT !.validated_msg = res.val])
    /\ UNCHANGED <<args, used_gas, engine, gas_writes, instantiated, alone>>

handle_FromHuman(t) ==
    /\ pc[t] = "handle_from_human"
    /\ LET res == from_human(frame[t].env_v010.contract.address) IN
       Try(t, "from_human", res, "handle_validate_key",
           [frame[t] EXCEPT !.canonical_contract_address = res.val])
    /\ UNCHANGED <<args, used_gas, engine, gas_writes, instantiated, alone>>


\* handle_ValidateKey gone wrong: the `!` of the test is lost
handle_ValidateKey_Inverted(t) ==
    /\ pc[t] = "handle_validate_key"
    /\ LET res == IF ~validate_contract_key(frame[t].contract_key,
                                            frame[t].canonical_contract_address,
                                            args[t].contract)
                  THEN Ok(<<>>) ELSE Err("FailedContractAuthentication") IN
       Try(t, "validate_contract_key", res, "handle_start_engine", frame[t])
    /\ UNCHANGED <<args, used_gas, engine, gas_writes, instantiated, alone>>

\* handle_ValidateKey gone wrong: the failure reports zero gas to the host
handle_ValidateKey_ZeroesGas(t) ==
    /\ pc[t] = "handle_validate_key"
    /\ LET valid == validate_contract_key(frame[t].contract_key,
                                          frame[t].canonical_contract_address,
                                          args[t].contract) IN
       /\ Try(t, "validate_contract_key",
              IF valid THEN Ok(<<>>) ELSE Err("FailedContractAuthentication"),
              "handle_start_engine", frame[t])
       /\ used_gas' = [used_gas EXCEPT ![t] = IF valid THEN @ ELSE 0]
    /\ UNCHANGED <<args, engine, gas_writes, instantiated, alone>>

handle_ValidateKey(t) ==
    /\ pc[t] = "handle_validate_key"
    /\ LET res == IF validate_contract_key(frame[t].contract_key,
                                           frame[t].canonical_contract_address,
                                           args[t].contract)
                  THEN Ok(<<>>) ELSE Err("FailedContractAuthentication") IN
       Try(t, "validate_contract_key", res, "handle_start_engine", frame[t])
    /\ UNCHANGED <<args, used_gas, engine, gas_writes, instantiated, alone>>

handle_StartEngine(t) ==
    /\ pc[t] = "handle_start_engine"
    /\ LET res == start_engine(args[t].context, args[t].gas_limit, args[t].contract,
                               frame[t].contract_key, "Handle",
                               frame[t].secret_msg.nonce,
                               frame[t].secret_msg.user_public_key) IN
       /\ Try(t, "start_engine", res, "handle_env_to_bytes", frame[t])
       /\ engine' = [engine EXCEPT ![t] = IF res.ok THEN <<res.val>> ELSE @]
    /\ UNCHANGED <<args, used_gas, gas_writes, instantiated, alone>>

handle_EnvToBytes(t) ==
    /\ pc[t] = "handle_env_to_bytes"
    /\ Try(t, "env_to_bytes", Ok(<<>>), "handle_write_env",
           [frame[t] EXCEPT
              !.contract_env_bytes = env_to_bytes(engine[t][1], frame[t].env_v010),
              !.env_v010 =
                  IF engine[t][1].contract_instance.cosmwasm_api_version = "V010"
                  THEN EnvV010Cleared(@) ELSE @])
    /\ UNCHANGED <<args, used_gas, engine, gas_writes, instantiated, alone>>

handle_WriteEnv(t) ==
    /\ pc[t] = "handle_write_env"
    /\ LET w == Engine_write_to_memory(engine[t][1], frame[t].contract_env_bytes) IN
       /\ Try(t, "write_to_memory(env)", w.res, "handle_write_msg",
              [frame[t] EXCEPT !.env_ptr = w.res.val])
       /\ engine' = [engine EXCEPT ![t] = <<w.engine>>]
    /\ UNCHANGED <<args, used_gas, gas_writes, instantiated, alone>>

handle_WriteMsg(t) ==
    /\ pc[t] = "handle_write_msg"
    /\ LET w == Engine_write_to_memory(engine[t][1], frame[t].validated_msg) IN
       /\ Try(t, "write_to_memory(msg)", w.res, "handle_engine_handle",
              [frame[t] EXCEPT !.msg_ptr = w.res.val])
       /\ engine' = [engine EXCEPT ![t] = <<w.engine>>]
    /\ UNCHANGED <<args, used_gas, gas_writes, instantiated, alone>>

handle_EngineHandle(t) ==
    /\ pc[t] = "handle_engine_handle"
    /\ LET r == Engine_enter(engine[t][1], "handle", <<frame[t].env_ptr, frame[t].msg_ptr>>) IN
       /\ InBlock(t, "engine.handle", r.res, "handle_extract_vector", "handle_map_err",
                  [frame[t] EXCEPT !.vec_ptr = r.res.val])
       /\ engine' = [engine EXCEPT ![t] = <<r.engine>>]
    /\ UNCHANGED <<args, used_gas, gas_writes, instantiated, alone>>

handle_ExtractVector(t) ==
    /\ pc[t] = "handle_extract_vector"
    /\ LET res == Engine_extract_vector(engine[t][1], frame[t].vec_ptr) IN
       InBlock(t, "extract_vector", res, "handle_encrypt_output", "handle_map_err",
               [frame[t] EXCEPT !.output = res.val])
    /\ UNCHANGED <<args, used_gas, engine, gas_writes, instantiated, alone>>

handle_EncryptOutput(t) ==
    /\ pc[t] = "handle_encrypt_output"
    /\ LET res == encrypt_output(frame[t].output, frame[t].secret_msg.nonce,
                                 frame[t].secret_msg.user_public_key,
                                 frame[t].canonical_contract_address) IN
       InBlock(t, "encrypt_output", res, "handle_return", "handle_map_err",
               [frame[t] EXCEPT !.output = res.val])
    /\ UNCHANGED <<args, used_gas, engine, gas_writes, instantiated, alone>>

handle_MapErr(t) == MapErr(t, "handle_map_err")

handle_Return(t) ==
    /\ pc[t] = "handle_return"
    /\ WriteUsedGas(t)
    /\ trace' = [trace EXCEPT ![t] = Append(@, "gas_used")]
    /\ pc' = [pc EXCEPT ![t] = "returned"]
    /\ ret' = [ret EXCEPT ![t] = <<Ok([output |-> frame[t].output])>>]
    /\ UNCHANGED <<args, frame, engine, instantiated, alone>>

(***************************************************************************)
(* query                                                                   *)
(***************************************************************************)

\* query_CheckLen gone wrong: `<=` for `<`
query_CheckLen_Inclusive(t) ==
    /\ pc[t] = "query_check_len"
    /\ IF Len(args[t].msg) <= CONTRACT_KEY_LENGTH
       THEN /\ pc' = [pc EXCEPT ![t] = "returned"]
            /\ ret' = [ret EXCEPT ![t] = <<Err("FailedFunctionCall")>>]
       ELSE /\ pc' = [pc EXCEPT ![t] = "query_split_key"]
            /\ ret' = ret
    /\ UNCHANGED <<args, used_gas, frame, engine, trace, gas_writes, instantiated, alone>>

query_CheckLen(t) ==
    /\ pc[t] = "query_check_len"
    /\ IF Len(args[t].msg) < CONTRACT_KEY_LENGTH
       THEN /\ pc' = [pc EXCEPT ![t] = "returned"]
            /\ ret' = [ret EXCEPT ![t] = <<Err("FailedFunctionCall")>>]
       ELSE /\ pc' = [pc EXCEPT ![t] = "query_split_key"]
            /\ ret' = ret
    /\ UNCHANGED <<args, used_gas, frame, engine, trace, gas_writes, instantiated, alone>>


\* query_SplitKey gone wrong: the key is taken from the wrong end of the split
query_SplitKey_WrongHalf(t) ==
    /\ pc[t] = "query_split_key"
    /\ pc' = [pc EXCEPT ![t] = "query_parse_msg"]
    /\ frame' = [frame EXCEPT
                   ![t].contract_key = SubSeq(args[t].msg,
                                              Len(args[t].msg) - CONTRACT_KEY_LENGTH + 1,
                                              Len(args[t].msg)),
                   ![t].msg = Drop(args[t].msg, CONTRACT_KEY_LENGTH)]
    /\ UNCHANGED <<args, used_gas, engine, ret, trace, gas_writes, instantiated, alone>>

\* let (key, msg) = msg.split_at(CONTRACT_KEY_LENGTH); contract_key.copy_from_slice(key)
query_SplitKey(t) ==
    /\ pc[t] = "query_split_key"
    /\ pc' = [pc EXCEPT ![t] = "query_parse_msg"]
    /\ frame' = [frame EXCEPT ![t].contract_key = Take(args[t].msg, CONTRACT_KEY_LENGTH),
                              ![t].msg = Drop(args[t].msg, CONTRACT_KEY_LENGTH)]
    /\ UNCHANGED <<args, used_gas, engine, ret, trace, gas_writes, instantiated, alone>>

query_ParseMsg(t) ==
    /\ pc[t] = "query_parse_msg"
    /\ LET res == SecretMessage_from_slice(frame[t].msg) IN
       Try(t, "SecretMessage::from_slice", res, "query_decrypt",
           [frame[t] EXCEPT !.secret_msg = res.val])
    /\ UNCHANGED <<args, used_gas, engine, gas_writes, instantiated, alone>>

query_Decrypt(t) ==
    /\ pc[t] = "query_decrypt"
    /\ LET res == SecretMessage_decrypt(frame[t].secret_msg) IN
       Try(t, "decrypt", res, "query_validate_msg",
           [frame[t] EXCEPT !.decrypted_msg = res.val])
    /\ UNCHANGED <<args, used_gas, engine, gas_writes, instantiated, alone>>

query_ValidateMsg(t) ==
    /\ pc[t] = "query_validate_msg"
    /\ LET res == validate_msg(frame[t].decrypted_msg, ContractHash(args[t].contract)) IN
       Try(t, "validate_msg", res, "query_start_engine",
           [frame[t] EXCEPT !.validated_msg = res.val])
    /\ UNCHANGED <<args, used_gas, engine, gas_writes, instantiated, alone>>

\* query_StartEngine gone wrong: the Engine of a query is built as a Handle
query_StartEngine_AsHandle(t) ==
    /\ pc[t] = "query_start_engine"
    /\ LET res == start_engine(args[t].context, args[t].gas_limit, args[t].contract,
                               frame[t].contract_key, "Handle",
                               frame[t].secret_msg.nonce,
                               frame[t].secret_msg.user_public_key) IN
       /\ Try(t, "start_engine", res, "query_write_msg", frame[t])
       /\ engine' = [engine EXCEPT ![t] = IF res.ok THEN <<res.val>> ELSE @]
    /\ UNCHANGED <<args, used_gas, gas_writes, instantiated, alone>>

query_StartEngine(t) ==
    /\ pc[t] = "query_start_engine"
    /\ LET res == start_engine(args[t].context, args[t].gas_limit, args[t].contract,
                               frame[t].contract_key, "Query",
                               frame[t].secret_msg.nonce,
                               frame[t].secret_msg.user_public_key) IN
       /\ Try(t, "start_engine", res, "query_write_msg", frame[t])
       /\ engine' = [engine EXCEPT ![t] = IF res.ok THEN <<res.val>> ELSE @]
    /\ UNCHANGED <<args, used_gas, gas_writes, instantiated, alone>>

query_WriteMsg(t) ==
    /\ pc[t] = "query_write_msg"
    /\ LET w == Engine_write_to_memory(engine[t][1], frame[t].validated_msg) IN
       /\ Try(t, "write_to_memory(msg)", w.res, "query_engine_query",
              [frame[t] EXCEPT !.msg_ptr = w.res.val])
       /\ engine' = [engine EXCEPT ![t] = <<w.engine>>]
    /\ UNCHANGED <<args, used_gas, gas_writes, instantiated, alone>>

query_EngineQuery(t) ==
    /\ pc[t] = "query_engine_query"
    /\ LET r == Engine_enter(engine[t][1], "query", <<frame[t].msg_ptr>>) IN
       /\ InBlock(t, "engine.query", r.res, "query_extract_vector", "query_map_err",
                  [frame[t] EXCEPT !.vec_ptr = r.res.val])
       /\ engine' = [engine EXCEPT ![t] = <<r.engine>>]
    /\ UNCHANGED <<args, used_gas, gas_writes, instantiated, alone>>

query_ExtractVector(t) ==
    /\ pc[t] = "query_extract_vector"
    /\ LET res == Engine_extract_vector(engine[t][1], frame[t].vec_ptr) IN
       InBlock(t, "extract_vector", res, "query_encrypt_output", "query_map_err",
               [frame[t] EXCEPT !.output = res.val])
    /\ UNCHANGED <<args, used_gas, engine, gas_writes, instantiated, alone>>

\* query_EncryptOutput gone wrong: the contract's answer is passed on as it is
query_EncryptOutput_Plain(t) ==
    /\ pc[t] = "query_encrypt_output"
    /\ InBlock(t, "encrypt_output", Ok(frame[t].output), "query_return", "query_map_err",
               frame[t])
    /\ UNCHANGED <<args, used_gas, engine, gas_writes, instantiated, alone>>

\* &CanonicalAddr(Binary(Vec::new())): not used for queries
query_EncryptOutput(t) ==
    /\ pc[t] = "query_encrypt_output"
    /\ LET res == encrypt_output(frame[t].output, frame[t].secret_msg.nonce,
                                 frame[t].secret_msg.user_public_key, <<>>) IN
       InBlock(t, "encrypt_output", res, "query_return", "query_map_err",
               [frame[t] EXCEPT !.output = res.val])
    /\ UNCHANGED <<args, used_gas, engine, gas_writes, instantiated, alone>>

query_MapErr(t) == MapErr(t, "query_map_err")

query_Return(t) ==
    /\ pc[t] = "query_return"
    /\ WriteUsedGas(t)
    /\ trace' = [trace EXCEPT ![t] = Append(@, "gas_used")]
    /\ pc' = [pc EXCEPT ![t] = "returned"]
    /\ ret' = [ret EXCEPT ![t] = <<Ok([output |-> frame[t].output])>>]
    /\ UNCHANGED <<args, frame, engine, instantiated, alone>>

(***************************************************************************)
(* The host has read the Result and *used_gas; the Engine and the locals   *)
(* of the call are dropped and the thread is free for the next call.       *)
(***************************************************************************)
Reset(t) ==
    /\ pc' = [pc EXCEPT ![t] = "idle"]
    /\ args' = [args EXCEPT ![t] = NoArgs]
    /\ used_gas' = [used_gas EXCEPT ![t] = 0]
    /\ frame' = [frame EXCEPT ![t] = Frame0]
    /\ engine' = [engine EXCEPT ![t] = <<>>]
    /\ ret' = [ret EXCEPT ![t] = <<>>]
    /\ trace' = [trace EXCEPT ![t] = <<>>]
    /\ gas_writes' = [gas_writes EXCEPT ![t] = 0]

\* the host drops the Result and every record of an earlier instantiation
Release(t) ==
    /\ pc[t] = "returned"
    /\ Reset(t)
    /\ instantiated' = <<>>
    /\ alone' = alone

\* the host keeps the InitSuccess it was handed, to instantiate again
ReleaseKeep(t) ==
    /\ pc[t] = "returned"
    /\ instantiated = <<>>
    /\ args[t].op = "init"
    /\ ret[t][1].ok
    /\ Reset(t)
    /\ instantiated' = <<[args |-> args[t], contract_key |-> ret[t][1].val.contract_key]>>
    /\ alone' = alone

Next ==
    \/ \E t \in Threads : CallInit(t)
    \/ \E t \in Threads : CallInitAgain(t)
    \/ \E t \in Threads : CallHandle(t)
    \/ \E t \in Threads : CallQuery(t)
    \/ \E t \in Threads : init_ParseEnv(t)
    \/ \E t \in Threads : init_FromHuman(t)
    \/ \E t \in Threads : init_GenerateKey(t)
    \/ \E t \in Threads : init_ParseSig(t)
    \/ \E t \in Threads : init_ParseMsg(t)
    \/ \E t \in Threads : init_VerifyParams(t)
    \/ \E t \in Threads : init_Decrypt(t)
    \/ \E t \in Threads : init_ValidateMsg(t)
    \/ \E t \in Threads : init_StartEngine(t)
    \/ \E t \in Threads : init_EnvToBytes(t)
    \/ \E t \in Threads : init_WriteEnv(t)
    \/ \E t \in Threads : init_WriteMsg(t)
    \/ \E t \in Threads : init_EngineInit(t)
    \/ \E t \in Threads : init_ExtractVector(t)
    \/ \E t \in Threads : init_EncryptOutput(t)
    \/ \E t \in Threads : init_MapErr(t)
    \/ \E t \in Threads : init_Return(t)
    \/ \E t \in Threads : handle_ParseEnv(t)
    \/ \E t \in Threads : handle_ParseSig(t)
    \/ \E t \in Threads : handle_ParseMsg(t)
    \/ \E t \in Threads : handle_VerifyParams(t)
    \/ \E t \in Threads : handle_ExtractKey(t)
    \/ \E t \in Threads : handle_ParseMsgAgain(t)
    \/ \E t \in Threads : handle_Decrypt(t)
    \/ \E t \in Threads : handle_ValidateMsg(t)
    \/ \E t \in Threads : handle_FromHuman(t)
    \/ \E t \in Threads : handle_ValidateKey(t)
    \/ \E t \in Threads : handle_StartEngine(t)
    \/ \E t \in Threads : handle_EnvToBytes(t)
    \/ \E t \in Threads : handle_WriteEnv(t)
    \/ \E t \in Threads : handle_WriteMsg(t)
    \/ \E t \in Threads : handle_EngineHandle(t)
    \/ \E t \in Threads : handle_ExtractVector(t)
    \/ \E t \in Threads : handle_EncryptOutput(t)
    \/ \E t \in Threads : handle_MapErr(t)
    \/ \E t \in Threads : handle_Return(t)
    \/ \E t \in Threads : query_CheckLen(t)
    \/ \E t \in Threads : query_SplitKey(t)
    \/ \E t \in Threads : query_ParseMsg(t)
    \/ \E t \in Threads : query_Decrypt(t)
    \/ \E t \in Threads : query_ValidateMsg(t)
    \/ \E t \in Threads : query_StartEngine(t)
    \/ \E t \in Threads : query_WriteMsg(t)
    \/ \E t \in Threads : query_EngineQuery(t)
    \/ \E t \in Threads : query_ExtractVector(t)
    \/ \E t \in Threads : query_EncryptOutput(t)
    \/ \E t \in Threads : query_MapErr(t)
    \/ \E t \in Threads : query_Return(t)
    \/ \E t \in Threads : Release(t)
    \/ \E t \in Threads : ReleaseKeep(t)

Spec == Init /\ [][Next]_vars

(***************************************************************************)
(* Two worker threads.  The host first lets one call run while the enclave *)
(* serves nothing else and keeps what it returned; from then on it calls   *)
(* into both threads as it likes.                                          *)
(***************************************************************************)
SignedCall(op, gas_limit, env, msg) ==
    {[op |-> op, context |-> c, gas_limit |-> gas_limit, used_gas |-> u,
      contract |-> <<1>>, env |-> env, msg |-> msg,
      sig_info |-> SigOf(env.doc.message.sender, env.doc.contract.address, msg)] :
        c \in Contexts, u \in UsedGasBefore}

QueryCall(gas_limit, msg) ==
    {[op |-> "query", context |-> c, gas_limit |-> gas_limit, used_gas |-> u,
      contract |-> <<1>>, env |-> NoEnv, msg |-> msg, sig_info |-> NoSig] :
        c \in Contexts, u \in UsedGasBefore}

\* an env that carries the key of the first contract
KeyedEnv ==
    [wellformed |-> TRUE,
     doc |-> EnvDoc("secret1sender", "secret1abc", Some(KeyOf(<<1>>)), HostHash)]

\* per entry point one call that succeeds and one that fails inside the Engine
ConcurrentCalls ==
    UNION {SignedCall("init", 50, KeyedEnv, SecretMsgBytes(<<1>>, 0)),
           SignedCall("init", 50, KeyedEnv, SecretMsgBytes(<<1>>, 1)),
           SignedCall("handle", 50, KeyedEnv, SecretMsgBytes(<<1>>, 0)),
           SignedCall("handle", 50, KeyedEnv, SecretMsgBytes(<<1>>, 2)),
           QueryCall(50, QueryKey \o SecretMsgBytes(<<1>>, 0)),
           QueryCall(50, QueryKey \o SecretMsgBytes(<<1>>, 3))}

FirstPc(op) ==
    CASE op = "init"   -> "init_parse_env"
      [] op = "handle" -> "handle_parse_env"
      [] op = "query"  -> "query_check_len"

InitConcurrent == InitFor({1, 2})

CallAlone(t) ==
    /\ \A u \in Threads : pc[u] = "idle"
    /\ alone = <<>>
    /\ \E a \in ConcurrentCalls : Enter(t, a, FirstPc(a.op))

\* the call that ran alone has returned: the host keeps its outcome
KeepAlone(t) ==
    /\ pc[t] = "returned"
    /\ alone = <<>>
    /\ alone' = <<[args |-> args[t], ret |-> ret[t][1], used_gas |-> used_gas[t],
                   gas_used |-> IF engine[t] = <<>> THEN 0
                                ELSE Engine_gas_used(engine[t][1])]>>
    /\ Reset(t)
    /\ UNCHANGED instantiated

CallConcurrent(t) ==
    /\ pc[t] = "idle"
    /\ alone # <<>>
    /\ \E a \in ConcurrentCalls : Enter(t, a, FirstPc(a.op))

ReleaseConcurrent(t) ==
    /\ pc[t] = "returned"
    /\ alone # <<>>
    /\ Reset(t)
    /\ UNCHANGED <<instantiated, alone>>



NextConcurrent ==
    \/ \E t \in Threads : CallAlone(t)
    \/ \E t \in Threads : KeepAlone(t)
    \/ \E t \in Threads : CallConcurrent(t)
    \/ \E t \in Threads : ReleaseConcurrent(t)
    \/ \E t \in Threads : init_ParseEnv(t)
    \/ \E t \in Threads : init_FromHuman(t)
    \/ \E t \in Threads : init_GenerateKey(t)
    \/ \E t \in Threads : init_ParseSig(t)
    \/ \E t \in Threads : init_ParseMsg(t)
    \/ \E t \in Threads : init_VerifyParams(t)
    \/ \E t \in Threads : init_Decrypt(t)
    \/ \E t \in Threads : init_ValidateMsg(t)
    \/ \E t \in Threads : init_StartEngine(t)
    \/ \E t \in Threads : init_EnvToBytes(t)
    \/ \E t \in Threads : init_WriteEnv(t)
    \/ \E t \in Threads : init_WriteMsg(t)
    \/ \E t \in Threads : init_EngineInit(t)
    \/ \E t \in Threads : init_ExtractVector(t)
    \/ \E t \in Threads : init_EncryptOutput(t)
    \/ \E t \in Threads : init_MapErr(t)
    \/ \E t \in Threads : init_Return(t)
    \/ \E t \in Threads : handle_ParseEnv(t)
    \/ \E t \in Threads : handle_ParseSig(t)
    \/ \E t \in Threads : handle_ParseMsg(t)
    \/ \E t \in Threads : handle_VerifyParams(t)
    \/ \E t \in Threads : handle_ExtractKey(t)
    \/ \E t \in Threads : handle_ParseMsgAgain(t)
    \/ \E t \in Threads : handle_Decrypt(t)
    \/ \E t \in Threads : handle_ValidateMsg(t)
    \/ \E t \in Threads : handle_FromHuman(t)
    \/ \E t \in Threads : handle_ValidateKey(t)
    \/ \E t \in Threads : handle_StartEngine(t)
    \/ \E t \in Threads : handle_EnvToBytes(t)
    \/ \E t \in Threads : handle_WriteEnv(t)
    \/ \E t \in Threads : handle_WriteMsg(t)
    \/ \E t \in Threads : handle_EngineHandle(t)
    \/ \E t \in Threads : handle_ExtractVector(t)
    \/ \E t \in Threads : handle_EncryptOutput(t)
    \/ \E t \in Threads : handle_MapErr(t)
    \/ \E t \in Threads : handle_Return(t)
    \/ \E t \in Threads : query_CheckLen(t)
    \/ \E t \in Threads : query_SplitKey(t)
    \/ \E t \in Threads : query_ParseMsg(t)
    \/ \E t \in Threads : query_Decrypt(t)
    \/ \E t \in Threads : query_ValidateMsg(t)
    \/ \E t \in Threads : query_StartEngine(t)
    \/ \E t \in Threads : query_WriteMsg(t)
    \/ \E t \in Threads : query_EngineQuery(t)
    \/ \E t \in Threads : query_ExtractVector(t)
    \/ \E t \in Threads : query_EncryptOutput(t)
    \/ \E t \in Threads : query_MapErr(t)
    \/ \E t \in Threads : query_Return(t)

SpecConcurrent == InitConcurrent /\ [][NextConcurrent]_vars

(***************************************************************************)
(* A call runs synchronously on its worker thread: while it is inside      *)
(* init, handle or query the thread goes on to the next statement, every   *)
(* collaborator returning and the Engine stopping its guest when the gas   *)
(* is gone.  The host is free to call, or not to.                          *)
(***************************************************************************)
\* the calls of one entry point: a call that succeeds, and every call that
\* differs from it in its gas, its code, its env, its message or its signature
CallsLike(base) ==
    {[base EXCEPT !.gas_limit = g] : g \in GasLimits}
    \cup {[base EXCEPT !.contract = k,
                       !.msg = SecretMsgBytes(k, 0),
                       !.sig_info = SigOf(base.env.doc.message.sender,
                                          base.env.doc.contract.address,
                                          SecretMsgBytes(k, 0))] : k \in Contracts}
    \cup {[base EXCEPT !.env = e,
                       !.sig_info = SigOf(e.doc.message.sender, e.doc.contract.address,
                                          base.msg)] : e \in Envs}
    \cup {[base EXCEPT !.msg = m,
                       !.sig_info = SigOf(base.env.doc.message.sender,
                                          base.env.doc.contract.address, m)] : m \in Msgs}
    \cup {[base EXCEPT !.sig_info = s] : s \in Sigs(base.env, base.msg)}

QueriesLike(base) ==
    {[base EXCEPT !.gas_limit = g] : g \in GasLimits}
    \cup {[base EXCEPT !.contract = k, !.msg = QueryKey \o SecretMsgBytes(k, 0)] :
             k \in Contracts}
    \cup {[base EXCEPT !.msg = m] : m \in QueryMsgs}

LiveCalls ==
    UNION ({CallsLike(base) : base \in SignedCall("init", 50, KeyedEnv, SecretMsgBytes(<<1>>, 0))}
           \cup {CallsLike(base) :
                    base \in SignedCall("handle", 50, KeyedEnv, SecretMsgBytes(<<1>>, 0))}
           \cup {QueriesLike(base) :
                    base \in QueryCall(50, QueryKey \o SecretMsgBytes(<<1>>, 0))})

CallLive(t) ==
    /\ pc[t] = "idle"
    /\ \E a \in LiveCalls : Enter(t, a, FirstPc(a.op))

NextLive ==
    \/ \E t \in Threads : CallLive(t)
    \/ \E t \in Threads : init_ParseEnv(t)
    \/ \E t \in Threads : init_FromHuman(t)
    \/ \E t \in Threads : init_GenerateKey(t)
    \/ \E t \in Threads : init_ParseSig(t)
    \/ \E t \in Threads : init_ParseMsg(t)
    \/ \E t \in Threads : init_VerifyParams(t)
    \/ \E t \in Threads : init_Decrypt(t)
    \/ \E t \in Threads : init_ValidateMsg(t)
    \/ \E t \in Threads : init_StartEngine(t)
    \/ \E t \in Threads : init_EnvToBytes(t)
    \/ \E t \in Threads : init_WriteEnv(t)
    \/ \E t \in Threads : init_WriteMsg(t)
    \/ \E t \in Threads : init_EngineInit(t)
    \/ \E t \in Threads : init_ExtractVector(t)
    \/ \E t \in Threads : init_EncryptOutput(t)
    \/ \E t \in Threads : init_MapErr(t)
    \/ \E t \in Threads : init_Return(t)
    \/ \E t \in Threads : handle_ParseEnv(t)
    \/ \E t \in Threads : handle_ParseSig(t)
    \/ \E t \in Threads : handle_ParseMsg(t)
    \/ \E t \in Threads : handle_VerifyParams(t)
    \/ \E t \in Threads : handle_ExtractKey(t)
    \/ \E t \in Threads : handle_ParseMsgAgain(t)
    \/ \E t \in Threads : handle_Decrypt(t)
    \/ \E t \in Threads : handle_ValidateMsg(t)
    \/ \E t \in Threads : handle_FromHuman(t)
    \/ \E t \in Threads : handle_ValidateKey(t)
    \/ \E t \in Threads : handle_StartEngine(t)
    \/ \E t \in Threads : handle_EnvToBytes(t)
    \/ \E t \in Threads : handle_WriteEnv(t)
    \/ \E t \in Threads : handle_WriteMsg(t)
    \/ \E t \in Threads : handle_EngineHandle(t)
    \/ \E t \in Threads : handle_ExtractVector(t)
    \/ \E t \in Threads : handle_EncryptOutput(t)
    \/ \E t \in Threads : handle_MapErr(t)
    \/ \E t \in Threads : handle_Return(t)
    \/ \E t \in Threads : query_CheckLen(t)
    \/ \E t \in Threads : query_SplitKey(t)
    \/ \E t \in Threads : query_ParseMsg(t)
    \/ \E t \in Threads : query_Decrypt(t)
    \/ \E t \in Threads : query_ValidateMsg(t)
    \/ \E t \in Threads : query_StartEngine(t)
    \/ \E t \in Threads : query_WriteMsg(t)
    \/ \E t \in Threads : query_EngineQuery(t)
    \/ \E t \in Threads : query_ExtractVector(t)
    \/ \E t \in Threads : query_EncryptOutput(t)
    \/ \E t \in Threads : query_MapErr(t)
    \/ \E t \in Threads : query_Return(t)
    \/ \E t \in Threads : Release(t)

\* the thread that serves a call executes the next statement of that call
Advance(t) ==
    /\ pc[t] \notin {"idle", "returned"}
    /\ NextLive
    /\ pc'[t] # pc[t]

SpecLive == Init /\ [][NextLive]_vars /\ WF_vars(\E t \in Threads : Advance(t))

(***************************************************************************)
(* Vocabulary of the properties.                                           *)
(***************************************************************************)
Returned(t) == pc[t] = "returned"

Succeeded(t) == Returned(t) /\ ret[t][1].ok

FailedWith(t, kind) == Returned(t) /\ ~ret[t][1].ok /\ ret[t][1].err = kind

EngineExists(t) == engine[t] # <<>>

Called(t, name) == \E i \in DOMAIN trace[t] : trace[t][i] = name

\* every call of `later` comes after a call of `earlier`
Precedes(t, earlier, later) ==
    \A j \in DOMAIN trace[t] :
        trace[t][j] = later => \E i \in 1..(j - 1) : trace[t][i] = earlier

LastCalled(t) == trace[t][Len(trace[t])]

Occurrences(seq, name) == Cardinality({i \in DOMAIN seq : seq[i] = name})

\* how often `name` was called
Count(t, name) == Occurrences(trace[t], name)

\* the bytes of the SecretMessage among the arguments
SecretBytes(a) == IF a.op = "query" THEN Drop(a.msg, CONTRACT_KEY_LENGTH) ELSE a.msg

\* the env as the dispatcher holds it after parsing
ParsedEnv(a) == Stamp(a.env.doc, a.contract)

(***************************************************************************)
(* C1: in init, handle and query, every path that returns after            *)
(* start_engine has built the Engine has assigned engine.gas_used() to     *)
(* used_gas: used_gas is written if and only if an Engine existed.         *)
(***************************************************************************)
C1_UsedGasWrittenIffEngineExisted ==
    \A t \in Threads :
        Returned(t) =>
            /\ EngineExists(t) <=> gas_writes[t] > 0
            /\ EngineExists(t) => used_gas[t] = Engine_gas_used(engine[t][1])

(***************************************************************************)
(* C2: every failure before start_engine has returned an Engine leaves     *)
(* used_gas at the value it had when the call was entered.                 *)
(***************************************************************************)
C2_NoEngineUsedGasUntouched ==
    \A t \in Threads :
        (pc[t] # "idle" /\ ~EngineExists(t)) =>
            /\ used_gas[t] = args[t].used_gas
            /\ gas_writes[t] = 0

\* handle returns FailedContractAuthentication for a tampered key, no Engine
C2_Witness ==
    \E t \in Threads :
        /\ args[t].op = "handle"
        /\ FailedWith(t, "FailedContractAuthentication")
        /\ LastCalled(t) = "validate_contract_key"
        /\ ~EngineExists(t)
        /\ used_gas[t] = args[t].used_gas
        /\ args[t].used_gas # 0

(***************************************************************************)
(* C3: in handle the contract key is extracted and authenticated with      *)
(* validate_contract_key before the message is decrypted and before        *)
(* validate_msg runs, so a call whose key fails authentication returns     *)
(* FailedContractAuthentication whatever the message.                      *)
(***************************************************************************)
KeyFailsAuthentication(a) ==
    LET key  == extract_contract_key(ParsedEnv(a))
        addr == from_human(a.env.doc.contract.address)
    IN  \/ ~key.ok
        \/ addr.ok /\ ~validate_contract_key(key.val, addr.val, a.contract)

C3_KeyAuthenticatedBeforeDecrypt ==
    \A t \in Threads :
        args[t].op = "handle" =>
            /\ Precedes(t, "extract_contract_key", "decrypt")
            /\ Precedes(t, "validate_contract_key", "decrypt")
            /\ Precedes(t, "validate_contract_key", "validate_msg")
            /\ (Returned(t) /\ Called(t, "extract_contract_key")
                  /\ KeyFailsAuthentication(args[t]))
               => FailedWith(t, "FailedContractAuthentication")

(***************************************************************************)
(* C4: in handle no Engine is built and engine.handle is not invoked       *)
(* unless extract_contract_key succeeded and validate_contract_key of the  *)
(* extracted key, the canonical contract address and the code returned     *)
(* true; when it returns false the call returns                            *)
(* FailedContractAuthentication.                                           *)
(***************************************************************************)
C4_EngineOnlyForAuthenticatedKey ==
    \A t \in Threads :
        args[t].op = "handle" =>
            /\ (Called(t, "start_engine") \/ EngineExists(t)) =>
                  /\ extract_contract_key(ParsedEnv(args[t])).ok
                  /\ frame[t].contract_key = args[t].env.doc.contract_key.v
                  /\ from_human(args[t].env.doc.contract.address).ok
                  /\ validate_contract_key(
                         args[t].env.doc.contract_key.v,
                         from_human(args[t].env.doc.contract.address).val,
                         args[t].contract)
                  /\ Precedes(t, "extract_contract_key", "start_engine")
                  /\ Precedes(t, "validate_contract_key", "start_engine")
            /\ (Called(t, "validate_contract_key")
                  /\ ~validate_contract_key(frame[t].contract_key,
                                            frame[t].canonical_contract_address,
                                            args[t].contract)) =>
                  /\ FailedWith(t, "FailedContractAuthentication")
                  /\ ~EngineExists(t)
                  /\ ~Called(t, "start_engine")

\* engine.handle has run for a key that authenticates the code and the address
C4_Witness ==
    \E t \in Threads :
        /\ args[t].op = "handle"
        /\ EngineExists(t)
        /\ engine[t][1].entered # <<>>
        /\ engine[t][1].entered[1].entry = "handle"
        /\ validate_contract_key(frame[t].contract_key,
                                 frame[t].canonical_contract_address, args[t].contract)

(***************************************************************************)
(* C5: in init and handle verify_params(sig_info, env, secret_msg) runs    *)
(* before the message is decrypted and before the Engine is built; if it   *)
(* fails the call returns FailedTxVerification and decrypt, start_engine,  *)
(* the entry point and encrypt_output are not reached.                     *)
(***************************************************************************)
SignatureVerifies(a) ==
    /\ a.env.wellformed
    /\ a.sig_info.wellformed
    /\ SecretMessage_from_slice(a.msg).ok
    /\ verify_params(a.sig_info.doc, ParsedEnv(a), SecretMessage_from_slice(a.msg).val).ok

C5_VerifiedBeforeDecryptAndEngine ==
    \A t \in Threads :
        args[t].op \in {"init", "handle"} =>
            /\ Precedes(t, "verify_params", "decrypt")
            /\ Precedes(t, "verify_params", "start_engine")
            /\ Precedes(t, "verify_params", "encrypt_output")
            /\ (Called(t, "decrypt") \/ EngineExists(t)) => SignatureVerifies(args[t])
            /\ (Called(t, "verify_params") /\ ~SignatureVerifies(args[t])) =>
                  /\ FailedWith(t, "FailedTxVerification")
                  /\ LastCalled(t) = "verify_params"
                  /\ ~EngineExists(t)

\* a signature over another sender stops handle at verify_params
C5_Witness ==
    \E t \in Threads :
        /\ args[t].op = "handle"
        /\ FailedWith(t, "FailedTxVerification")
        /\ args[t].sig_info.doc.sender # args[t].env.doc.message.sender
        /\ ~Called(t, "decrypt")
        /\ ~EngineExists(t)

(***************************************************************************)
(* C6: the engine entry point is invoked only with the payload returned by *)
(* validate_msg, the decrypted plaintext without its 64-character hex      *)
(* code-hash prefix; a plaintext that does not begin with                  *)
(* hex(hash(contract)) gives ValidationFailure and no Engine.              *)
(***************************************************************************)
Plaintext(a) == SecretMessage_decrypt(SecretMessage_from_slice(SecretBytes(a)).val)

C6_EntryPointSeesValidatedPayload ==
    \A t \in Threads :
        args[t].op # "none" =>
            /\ EngineExists(t) =>
                  /\ SecretMessage_from_slice(SecretBytes(args[t])).ok
                  /\ Plaintext(args[t]).ok
                  /\ Take(Plaintext(args[t]).val, 2 * HASH_SIZE)
                        = HexEncode(ContractHash(args[t].contract))
                  /\ \A i \in DOMAIN engine[t][1].entered :
                        LET ptrs == engine[t][1].entered[i].ptrs IN
                        engine[t][1].memory[ptrs[Len(ptrs)]]
                            = Drop(Plaintext(args[t]).val, 2 * HASH_SIZE)
            /\ (Called(t, "validate_msg")
                  /\ ~validate_msg(Plaintext(args[t]).val,
                                   ContractHash(args[t].contract)).ok) =>
                  /\ FailedWith(t, "ValidationFailure")
                  /\ ~EngineExists(t)

\* engine.init has been handed the one-byte payload behind the prefix
C6_Witness ==
    \E t \in Threads :
        /\ args[t].op = "init"
        /\ EngineExists(t)
        /\ engine[t][1].entered # <<>>
        /\ engine[t][1].memory[engine[t][1].entered[1].ptrs[2]] = <<0>>
        /\ Len(frame[t].decrypted_msg) = 2 * HASH_SIZE + 1

(***************************************************************************)
(* C7: on no path of query is verify_params or validate_contract_key       *)
(* invoked; the contract key given to the Engine is the first              *)
(* CONTRACT_KEY_LENGTH bytes of msg, unvalidated.                          *)
(***************************************************************************)
C7_QueryIndependence ==
    \A t \in Threads :
        args[t].op = "query" =>
            /\ ~Called(t, "verify_params")
            /\ ~Called(t, "validate_contract_key")
            /\ EngineExists(t) =>
                  engine[t][1].contract_instance.contract_key
                      = Take(args[t].msg, CONTRACT_KEY_LENGTH)

\* a query has succeeded under a key that authenticates nothing
C7_Witness ==
    \E t \in Threads :
        /\ args[t].op = "query"
        /\ Succeeded(t)
        /\ engine[t][1].contract_instance.contract_key = QueryKey
        /\ ~validate_contract_key(QueryKey, from_human("secret1abc").val, args[t].contract)

(***************************************************************************)
(* C8: query with msg shorter than CONTRACT_KEY_LENGTH returns             *)
(* FailedFunctionCall without parsing or decrypting a SecretMessage and    *)
(* without an Engine; for msg of CONTRACT_KEY_LENGTH bytes or more this    *)
(* check never fails.                                                      *)
(***************************************************************************)
C8_QueryLengthCheck ==
    \A t \in Threads :
        (args[t].op = "query" /\ pc[t] # "query_check_len") =>
            IF Len(args[t].msg) < CONTRACT_KEY_LENGTH
            THEN /\ FailedWith(t, "FailedFunctionCall")
                 /\ trace[t] = <<>>
                 /\ ~EngineExists(t)
            ELSE \/ ~Returned(t)
                 \/ Called(t, "SecretMessage::from_slice")

\* CONTRACT_KEY_LENGTH - 1 bytes are refused
C8_Witness ==
    \E t \in Threads :
        /\ args[t].op = "query"
        /\ Len(args[t].msg) = CONTRACT_KEY_LENGTH - 1
        /\ FailedWith(t, "FailedFunctionCall")
        /\ trace[t] = <<>>

(***************************************************************************)
(* C9: in init and handle the env bytes written into wasm memory carry     *)
(* contract_code_hash (V010) / contract.code_hash (V016) equal to          *)
(* hex(hash(contract)) whatever the host supplied, and no contract_key.    *)
(***************************************************************************)
StampedForContract(bytes, contract) ==
    IF bytes.version = "V010"
    THEN /\ bytes.v010[1].contract_code_hash = HexEncode(ContractHash(contract))
         /\ bytes.v010[1].contract_key = None
    ELSE /\ bytes.v016[1].contract.code_hash = HexEncode(ContractHash(contract))
         /\ "contract_key" \notin DOMAIN bytes.v016[1]

C9_EnvStamping ==
    \A t \in Threads :
        (args[t].op \in {"init", "handle"} /\ EngineExists(t)) =>
            /\ frame[t].env_ptr > 0 =>
                  StampedForContract(engine[t][1].memory[frame[t].env_ptr],
                                     args[t].contract)
            /\ \A i \in DOMAIN engine[t][1].entered :
                  /\ engine[t][1].entered[i].ptrs[1] = frame[t].env_ptr
                  /\ StampedForContract(
                         engine[t][1].memory[engine[t][1].entered[i].ptrs[1]],
                         args[t].contract)

\* the host supplied another code hash and a contract key; the contract ran
C9_Witness ==
    \E t \in Threads :
        /\ args[t].op = "handle"
        /\ args[t].env.doc.contract_code_hash = HostHash
        /\ args[t].env.doc.contract_code_hash # HexEncode(ContractHash(args[t].contract))
        /\ args[t].env.doc.contract_key.some
        /\ EngineExists(t)
        /\ engine[t][1].entered # <<>>

(***************************************************************************)
(* C10: two init calls with the same env and code return the same          *)
(* contract_key in InitSuccess, whatever their msg, sig_info, gas_limit,   *)
(* context and engine output; the key returned is the one generated before *)
(* the signature was verified and handed to the Engine.                    *)
(***************************************************************************)
C10_KeyDeterminism ==
    \A t \in Threads :
        (args[t].op = "init" /\ Succeeded(t)) =>
            /\ Precedes(t, "generate_encryption_key", "verify_params")
            /\ ret[t][1].val.contract_key = frame[t].contract_key
            /\ ret[t][1].val.contract_key = engine[t][1].contract_instance.contract_key
            /\ ret[t][1].val.contract_key
                 = generate_encryption_key(
                       ParsedEnv(args[t]), ContractHash(args[t].contract),
                       from_human(args[t].env.doc.contract.address).val).val
            /\ (/\ instantiated # <<>>
                /\ instantiated[1].args.env = args[t].env
                /\ instantiated[1].args.contract = args[t].contract) =>
                  ret[t][1].val.contract_key = instantiated[1].contract_key

\* the second instantiation differed in message, signature and context
C10_Witness ==
    \E t \in Threads :
        /\ args[t].op = "init"
        /\ Succeeded(t)
        /\ instantiated # <<>>
        /\ instantiated[1].args.env = args[t].env
        /\ instantiated[1].args.contract = args[t].contract
        /\ instantiated[1].args.msg # args[t].msg
        /\ instantiated[1].args.sig_info # args[t].sig_info
        /\ instantiated[1].args.context # args[t].context

(***************************************************************************)
(* C11: whenever init, handle or query writes used_gas the value written   *)
(* is at most gas_limit, and when the engine entry point runs out of gas   *)
(* the call returns FailedFunctionCall with used_gas = gas_limit.          *)
(***************************************************************************)
\* the guest asked for more gas than the staging of its arguments had left
OutOfGasAtEntry(t) ==
    /\ EngineExists(t)
    /\ engine[t][1].entered # <<>>
    /\ LET ptrs == engine[t][1].entered[1].ptrs
           cmd  == GuestCommand(engine[t][1].memory[ptrs[Len(ptrs)]])
       IN  ALLOC_COST * Len(ptrs) + GuestCost(cmd) > args[t].gas_limit

C11_GasMonotonicity ==
    \A t \in Threads :
        /\ gas_writes[t] > 0 => used_gas[t] <= args[t].gas_limit
        /\ (Returned(t) /\ OutOfGasAtEntry(t)) =>
              /\ FailedWith(t, "FailedFunctionCall")
              /\ gas_writes[t] > 0
              /\ used_gas[t] = args[t].gas_limit

\* a guest that loops used up the 50 units of its init
C11_Witness ==
    \E t \in Threads :
        /\ args[t].op = "init"
        /\ FailedWith(t, "FailedFunctionCall")
        /\ OutOfGasAtEntry(t)
        /\ LastCalled(t) = "gas_used"
        /\ used_gas[t] = args[t].gas_limit
        /\ args[t].gas_limit > ALLOC_COST + ALLOC_COST
        /\ args[t].used_gas # args[t].gas_limit

(***************************************************************************)
(* C12: concurrent calls do not interfere.  Whatever the interleaving of   *)
(* the worker threads, a call returns the Result and writes the used_gas   *)
(* that the same call returned and wrote when it ran alone, and its Engine *)
(* is the one built from its own arguments.                                *)
(***************************************************************************)
C12_NoInterference ==
    \A t \in Threads :
        /\ (alone # <<>> /\ Returned(t) /\ args[t] = alone[1].args) =>
              /\ ret[t][1] = alone[1].ret
              /\ used_gas[t] = alone[1].used_gas
              /\ EngineExists(t) => Engine_gas_used(engine[t][1]) = alone[1].gas_used
        /\ EngineExists(t) =>
              /\ engine[t][1].contract_instance.context = args[t].context
              /\ engine[t][1].contract_instance.gas_limit = args[t].gas_limit
              /\ engine[t][1].module = args[t].contract
              /\ \A i \in DOMAIN engine[t][1].entered :
                    engine[t][1].entered[i].entry = args[t].op

\* the call that once ran alone has returned next to a call of another entry
\* point that is still inside its Engine
C12_Witness ==
    \E t \in Threads, u \in Threads :
        /\ t # u
        /\ alone # <<>>
        /\ Returned(t)
        /\ args[t] = alone[1].args
        /\ gas_writes[t] = 1
        /\ ~Returned(u)
        /\ EngineExists(u)
        /\ engine[u][1].entered # <<>>
        /\ args[u].op # args[t].op
        /\ Engine_gas_used(engine[u][1]) # used_gas[t]

(***************************************************************************)
(* C13: the first error terminates the call.  The statement whose Result   *)
(* is an Err is the last one the call executes: the call returns that Err  *)
(* (from inside coalesce! by way of the .map_err closure, which only reads *)
(* the gas), no later step runs, no success value is returned, and a call  *)
(* that has returned stays as it is.                                       *)
(***************************************************************************)
BlockPcs ==
    {"init_engine_init", "init_extract_vector", "init_encrypt_output",
     "handle_engine_handle", "handle_extract_vector", "handle_encrypt_output",
     "query_engine_query", "query_extract_vector", "query_encrypt_output"}

MapErrPcs == {"init_map_err", "handle_map_err", "query_map_err"}

ReturnPcs == {"init_return", "handle_return", "query_return"}

\* the call stands at a statement that yields a Result
AtStatement(t) == pc[t] \notin ({"idle", "returned"} \cup MapErrPcs \cup ReturnPcs)

\* the Result of the statement the call stands at, from the locals it has
Pending(t) ==
    LET a == args[t]
        f == frame[t]
        unit(b, kind) == IF b THEN Ok(<<>>) ELSE Err(kind)
    IN  CASE pc[t] \in {"init_parse_env", "handle_parse_env"} -> from_json(a.env)
          [] pc[t] \in {"init_from_human", "handle_from_human"} ->
                from_human(f.env_v010.contract.address)
          [] pc[t] = "init_generate_key" ->
                generate_encryption_key(f.env_v010, ContractHash(a.contract),
                                        f.canonical_contract_address)
          [] pc[t] \in {"init_parse_sig", "handle_parse_sig"} -> from_json(a.sig_info)
          [] pc[t] \in {"init_parse_msg", "handle_parse_msg", "handle_parse_msg_again"} ->
                SecretMessage_from_slice(a.msg)
          [] pc[t] = "query_parse_msg" -> SecretMessage_from_slice(f.msg)
          [] pc[t] \in {"init_verify_params", "handle_verify_params"} ->
                verify_params(f.parsed_sig_info, f.env_v010, f.secret_msg)
          [] pc[t] = "handle_extract_key" -> extract_contract_key(f.env_v010)
          [] pc[t] \in {"init_decrypt", "handle_decrypt", "query_decrypt"} ->
                SecretMessage_decrypt(f.secret_msg)
          [] pc[t] \in {"init_validate_msg", "handle_validate_msg", "query_validate_msg"} ->
                validate_msg(f.decrypted_msg, ContractHash(a.contract))
          [] pc[t] = "handle_validate_key" ->
                unit(validate_contract_key(f.contract_key, f.canonical_contract_address,
                                           a.contract),
                     "FailedContractAuthentication")
          [] pc[t] \in {"init_start_engine", "handle_start_engine", "query_start_engine"} ->
                unit(ModuleOk(a.contract), "FailedFunctionCall")
          [] pc[t] \in {"init_write_env", "handle_write_env"} ->
                Engine_write_to_memory(engine[t][1], f.contract_env_bytes).res
          [] pc[t] \in {"init_write_msg", "handle_write_msg", "query_write_msg"} ->
                Engine_write_to_memory(engine[t][1], f.validated_msg).res
          [] pc[t] \in {"init_engine_init", "handle_engine_handle"} ->
                Engine_enter(engine[t][1], a.op, <<f.env_ptr, f.msg_ptr>>).res
          [] pc[t] = "query_engine_query" ->
                Engine_enter(engine[t][1], a.op, <<f.msg_ptr>>).res
          [] pc[t] \in {"init_extract_vector", "handle_extract_vector",
                        "query_extract_vector"} ->
                Engine_extract_vector(engine[t][1], f.vec_ptr)
          [] pc[t] \in {"init_encrypt_output", "handle_encrypt_output"} ->
                encrypt_output(f.output, f.secret_msg.nonce, f.secret_msg.user_public_key,
                               f.canonical_contract_address)
          [] pc[t] = "query_encrypt_output" ->
                encrypt_output(f.output, f.secret_msg.nonce, f.secret_msg.user_public_key,
                               <<>>)
          [] pc[t] = "query_check_len" ->
                unit(Len(a.msg) >= CONTRACT_KEY_LENGTH, "FailedFunctionCall")
          [] OTHER -> Ok(<<>>)

FirstErrorTerminates(t) ==
    /\ (AtStatement(t) /\ pc'[t] # pc[t]) =>
          IF Pending(t).ok
          THEN /\ pc'[t] \notin ({"idle", "returned"} \cup MapErrPcs)
               /\ ret'[t] = <<>>
          ELSE IF pc[t] \in BlockPcs
          THEN /\ pc'[t] \in MapErrPcs
               /\ frame'[t].err = Pending(t).err
               /\ ret'[t] = <<>>
          ELSE /\ pc'[t] = "returned"
               /\ ret'[t] = <<Err(Pending(t).err)>>
    /\ (pc[t] \in MapErrPcs /\ pc'[t] # pc[t]) =>
          /\ pc'[t] = "returned"
          /\ ret'[t] = <<Err(frame[t].err)>>
          /\ trace'[t] = Append(trace[t], "gas_used")
          /\ engine'[t] = engine[t]
    /\ (ret[t] = <<>> /\ ret'[t] # <<>> /\ ret'[t][1].ok) => pc[t] \in ReturnPcs
    /\ Returned(t) =>
          /\ pc'[t] \in {"returned", "idle"}
          /\ pc'[t] = "returned" =>
                /\ ret'[t] = ret[t]
                /\ trace'[t] = trace[t]
                /\ engine'[t] = engine[t]
                /\ used_gas'[t] = used_gas[t]

C13_FirstErrorTerminates == [][\A t \in Threads : FirstErrorTerminates(t)]_vars

\* extract_vector failed on the pointer the guest returned: the query ended
\* there, without encrypt_output and without an output
C13_Witness ==
    \E t \in Threads :
        /\ args[t].op = "query"
        /\ FailedWith(t, "FailedFunctionCall")
        /\ ret[t][1].val = <<>>
        /\ Len(trace[t]) > 1
        /\ trace[t][Len(trace[t]) - 1] = "extract_vector"
        /\ LastCalled(t) = "gas_used"
        /\ ~Called(t, "encrypt_output")
        /\ ~Engine_extract_vector(engine[t][1], frame[t].vec_ptr).ok

(***************************************************************************)
(* C14: on every path of init, handle and query that reaches the call of   *)
(* the engine entry point, used_gas is written exactly once before the     *)
(* call returns, whether the entry point, extract_vector or encrypt_output *)
(* succeeds or fails, and the value is engine.gas_used() read after the    *)
(* last step that touched the Engine.                                      *)
(***************************************************************************)
Executing(t) ==
    Called(t, "engine.init") \/ Called(t, "engine.handle") \/ Called(t, "engine.query")

C14_UsedGasWrittenOnce ==
    \A t \in Threads :
        Executing(t) =>
            IF Returned(t)
            THEN /\ gas_writes[t] = 1
                 /\ LastCalled(t) = "gas_used"
                 /\ used_gas[t] = Engine_gas_used(engine[t][1])
            ELSE /\ gas_writes[t] = 0
                 /\ used_gas[t] = args[t].used_gas

\* the guest of a handle answered bytes that encrypt_output refused
C14_Witness ==
    \E t \in Threads :
        /\ args[t].op = "handle"
        /\ FailedWith(t, "EncryptionError")
        /\ Executing(t)
        /\ gas_writes[t] = 1
        /\ used_gas[t] = Engine_gas_used(engine[t][1])
        /\ used_gas[t] # args[t].used_gas
        /\ used_gas[t] < args[t].gas_limit

(***************************************************************************)
(* C15: in handle the second SecretMessage::from_slice(msg) yields the     *)
(* nonce, user_public_key and ciphertext of the first: it cannot fail and  *)
(* leaves secret_msg as it was, so the message that is decrypted and whose *)
(* nonce and key go to the Engine and to encrypt_output is the message     *)
(* verify_params authenticated; without the second parse handle would go   *)
(* on from the same locals.                                                *)
(***************************************************************************)
C15_SecondParseIsFirst ==
    \A t \in Threads :
        args[t].op = "handle" =>
            LET first == SecretMessage_from_slice(args[t].msg) IN
            /\ pc[t] = "handle_parse_msg_again" =>
                  /\ Count(t, "SecretMessage::from_slice") = 1
                  /\ first.ok
                  /\ frame[t].secret_msg = first.val
                  /\ Pending(t) = Ok(frame[t].secret_msg)
                  /\ verify_params(frame[t].parsed_sig_info, frame[t].env_v010,
                                   frame[t].secret_msg).ok
            /\ Count(t, "SecretMessage::from_slice") = 2 =>
                  /\ LastCalled(t) = "SecretMessage::from_slice" => ~Returned(t)
                  /\ frame[t].secret_msg = first.val
                  /\ SignatureVerifies(args[t])
            /\ (Called(t, "decrypt") /\ SecretMessage_decrypt(first.val).ok) =>
                  frame[t].decrypted_msg = SecretMessage_decrypt(first.val).val
            /\ EngineExists(t) =>
                  /\ engine[t][1].contract_instance.nonce = first.val.nonce
                  /\ engine[t][1].contract_instance.user_public_key
                        = first.val.user_public_key
            /\ Succeeded(t) =>
                  ret[t][1].val.output
                    = encrypt_output(engine[t][1].memory[frame[t].vec_ptr],
                                     first.val.nonce, first.val.user_public_key,
                                     frame[t].canonical_contract_address).val

\* a handle that parsed its message twice has succeeded
C15_Witness ==
    \E t \in Threads :
        /\ args[t].op = "handle"
        /\ Succeeded(t)
        /\ Count(t, "SecretMessage::from_slice") = 2
        /\ Precedes(t, "verify_params", "decrypt")
        /\ frame[t].secret_msg = SecretMessage_from_slice(args[t].msg).val
        /\ frame[t].secret_msg.msg # <<>>

(***************************************************************************)
(* C16: the projection V010 -> V016 of env_to_bytes keeps block.height,    *)
(* block.chain_id and contract.address, and for every u64 block.time t     *)
(* (seconds) its Timestamp is t * 10^9 nanoseconds, with no wrap-around or *)
(* truncation in the 64-bit result.                                        *)
(***************************************************************************)
\* the product of two u64 in full: sixteen base-256 limbs, least first
RECURSIVE ProductLimbs(_, _, _, _)
ProductLimbs(a, b, k, carry) ==
    IF k > 16 THEN <<>>
    ELSE LET s == SumColumn(a, b, k, 1) + carry
         IN  <<s % 256>> \o ProductLimbs(a, b, k + 1, s \div 256)

ExactMul(a, b) == ProductLimbs(a \o Rep(8, 0), b \o Rep(8, 0), 1, 0)

C16_EnvProjection ==
    \A t \in Threads :
        (/\ args[t].op \in {"init", "handle"}
         /\ EngineExists(t)
         /\ frame[t].env_ptr > 0
         /\ engine[t][1].memory[frame[t].env_ptr].version = "V016") =>
            LET seen  == engine[t][1].memory[frame[t].env_ptr].v016[1]
                given == ParsedEnv(args[t])
            IN  /\ seen.block.height = given.block.height
                /\ seen.block.chain_id = given.block.chain_id
                /\ seen.contract.address = given.contract.address
                /\ Len(seen.block.time) = 8
                /\ seen.block.time \o Rep(8, 0)
                      = ExactMul(given.block.time, U64(1000000000))

(***************************************************************************)
(* C17: every init, handle or query call eventually returns, with a        *)
(* success value or with an error, given that every collaborator returns   *)
(* and the Engine stops the guest when the gas is gone; the dispatcher has *)
(* no loop and no retry: a call only moves forward through its statements  *)
(* and calls no collaborator twice, but for the two parses of handle.      *)
(***************************************************************************)
Statements(op) ==
    CASE op = "init" ->
            <<"init_parse_env", "init_from_human", "init_generate_key", "init_parse_sig",
              "init_parse_msg", "init_verify_params", "init_decrypt", "init_validate_msg",
              "init_start_engine", "init_env_to_bytes", "init_write_env", "init_write_msg",
              "init_engine_init", "init_extract_vector", "init_encrypt_output",
              "init_map_err", "init_return", "returned">>
      [] op = "handle" ->
            <<"handle_parse_env", "handle_parse_sig", "handle_parse_msg",
              "handle_verify_params", "handle_extract_key", "handle_parse_msg_again",
              "handle_decrypt", "handle_validate_msg", "handle_from_human",
              "handle_validate_key", "handle_start_engine", "handle_env_to_bytes",
              "handle_write_env", "handle_write_msg", "handle_engine_handle",
              "handle_extract_vector", "handle_encrypt_output", "handle_map_err",
              "handle_return", "returned">>
      [] op = "query" ->
            <<"query_check_len", "query_split_key", "query_parse_msg", "query_decrypt",
              "query_validate_msg", "query_start_engine", "query_write_msg",
              "query_engine_query", "query_extract_vector", "query_encrypt_output",
              "query_map_err", "query_return", "returned">>

\* how far the call has come through the statements of its entry point
Position(t) ==
    CHOOSE i \in DOMAIN Statements(args[t].op) : Statements(args[t].op)[i] = pc[t]

Running(t) == pc[t] \notin {"idle", "returned"}

OnlyForward(t) ==
    Running(t) =>
        /\ pc[t] \in {Statements(args[t].op)[i] : i \in DOMAIN Statements(args[t].op)}
        /\ pc'[t] # pc[t] =>
              /\ pc'[t] \in {Statements(args[t].op)[i] : i \in DOMAIN Statements(args[t].op)}
              /\ Position(t)' > Position(t)
        /\ \A i \in DOMAIN trace'[t] :
              \/ Occurrences(trace'[t], trace'[t][i]) = 1
              \/ /\ args[t].op = "handle"
                 /\ trace'[t][i] = "SecretMessage::from_slice"
                 /\ Occurrences(trace'[t], trace'[t][i]) = 2

C17_EveryCallReturns ==
    /\ [][\A t \in Threads : OnlyForward(t)]_vars
    /\ (\E t \in Threads : Running(t)) ~> (\E t \in Threads : Returned(t))

\* a handle has gone through every statement of its success path
C17_Witness ==
    \E t \in Threads :
        /\ args[t].op = "handle"
        /\ Succeeded(t)
        /\ Len(trace[t]) = Len(Statements("handle")) - 2
        /\ Count(t, "engine.handle") = 1
        /\ Count(t, "start_engine") = 1

(***************************************************************************)
(* C18: a call constructs at most one Engine, tagged with the operation of *)
(* its entry point (init: Init, handle: Handle, query: Query), and enters  *)
(* the guest at most once, through the entry of the same name; a query     *)
(* writes only the validated msg into wasm memory, init and handle write   *)
(* the env and then the msg, and the guest is entered with those pointers. *)
(***************************************************************************)
OperationOf(op) ==
    CASE op = "init"   -> "Init"
      [] op = "handle" -> "Handle"
      [] op = "query"  -> "Query"

EngineEntries == {"engine.init", "engine.handle", "engine.query"}

\* what the dispatcher has written into wasm memory, in the order of the writes
Written(t) ==
    SelectSeq(trace[t], LAMBDA c : c \in {"write_to_memory(env)", "write_to_memory(msg)"})

C18_OneEngineOneEntry ==
    \A t \in Threads :
        pc[t] # "idle" =>
            /\ Count(t, "start_engine") <= 1
            /\ Len(engine[t]) <= 1
            /\ EngineExists(t) =>
                  /\ Called(t, "start_engine")
                  /\ engine[t][1].contract_instance.operation = OperationOf(args[t].op)
            /\ \A c \in EngineEntries :
                  Count(t, c) = IF c = "engine." \o args[t].op /\ EngineExists(t)
                                THEN Len(engine[t][1].entered) ELSE 0
            /\ EngineExists(t) => Len(engine[t][1].entered) <= 1
            /\ IF args[t].op = "query"
               THEN /\ Written(t) \in {<<>>, <<"write_to_memory(msg)">>}
                    /\ EngineExists(t) /\ engine[t][1].entered # <<>> =>
                          /\ engine[t][1].entered[1] = [entry |-> "query", ptrs |-> <<1>>]
                          /\ engine[t][1].memory[1] = frame[t].validated_msg
               ELSE /\ Written(t) \in {<<>>, <<"write_to_memory(env)">>,
                                       <<"write_to_memory(env)", "write_to_memory(msg)">>}
                    /\ EngineExists(t) /\ engine[t][1].entered # <<>> =>
                          /\ engine[t][1].entered[1] =
                                [entry |-> args[t].op, ptrs |-> <<1, 2>>]
                          /\ engine[t][1].memory[1] = frame[t].contract_env_bytes
                          /\ engine[t][1].memory[2] = frame[t].validated_msg

\* a query has run its guest, on an Engine built for Query, with the msg alone
C18_Witness ==
    \E t \in Threads :
        /\ args[t].op = "query"
        /\ Succeeded(t)
        /\ engine[t][1].contract_instance.operation = "Query"
        /\ engine[t][1].entered = <<[entry |-> "query", ptrs |-> <<1>>]>>
        /\ Written(t) = <<"write_to_memory(msg)">>

(***************************************************************************)
(* C19: no plaintext answer of the contract reaches the host: a call       *)
(* succeeds only after encrypt_output has, and the output it returns is    *)
(* what encrypt_output gives for the vector extracted from the Engine, the *)
(* nonce and user_public_key of the call's SecretMessage, and the          *)
(* canonical env.contract.address (init, handle) or the empty canonical    *)
(* address (query).                                                        *)
(***************************************************************************)
\* the SecretMessage the host sent with the call
SecretMessageOf(a) ==
    SecretMessage_from_slice(IF a.op = "query" THEN Drop(a.msg, CONTRACT_KEY_LENGTH)
                                               ELSE a.msg).val

\* the contract address that goes into the encrypted output
OutputAddress(a) ==
    IF a.op = "query" THEN <<>> ELSE from_human(a.env.doc.contract.address).val

\* encrypt_output on the vector the guest returned to this call
Sealed(t) ==
    encrypt_output(engine[t][1].memory[frame[t].vec_ptr],
                   SecretMessageOf(args[t]).nonce,
                   SecretMessageOf(args[t]).user_public_key,
                   OutputAddress(args[t]))

C19_OutputIsEncrypted ==
    \A t \in Threads :
        Succeeded(t) =>
            /\ Count(t, "encrypt_output") = 1
            /\ Count(t, "extract_vector") = 1
            /\ Sealed(t).ok
            /\ ret[t][1].val.output = Sealed(t).val
            /\ ret[t][1].val.output # engine[t][1].memory[frame[t].vec_ptr]
            /\ AeadDecrypt(ret[t][1].val.output, SecretMessageOf(args[t]).nonce,
                           SecretMessageOf(args[t]).user_public_key)
                  = Ok(engine[t][1].memory[frame[t].vec_ptr] \o OutputAddress(args[t]))

\* a handle has returned the guest's "{}" and its own address, encrypted
C19_Witness ==
    \E t \in Threads :
        /\ args[t].op = "handle"
        /\ Succeeded(t)
        /\ engine[t][1].memory[frame[t].vec_ptr] = <<123, 125>>
        /\ OutputAddress(args[t]) = <<10, 11, 12>>
        /\ ret[t][1].val.output =
              AeadEncrypt(<<123, 125, 10, 11, 12>>, SecretMessageOf(args[t]).nonce,
                          SecretMessageOf(args[t]).user_public_key)

=============================================================================
